---------------------------- MODULE Spec2Model ----------------------------
(***************************************************************************)
(* A model of src/src/App.jsx: the VariableProximity component (pointer    *)
(* proximity text deformation) and the PillNav component (radial hover     *)
(* accent), with the pure functions they are built from.                   *)
(*                                                                         *)
(* JavaScript numbers are modelled as exact rationals extended with NaN,   *)
(* +Infinity and -Infinity; JavaScript strings as sequences of one         *)
(* character strings.                                                      *)
(***************************************************************************)
EXTENDS Integers, Sequences, FiniteSets, TLC

VARIABLES
    \* ---- VariableProximity instance ----
    vpMounted,        \* the instance is in the tree
    vpProps,          \* label, from/toFontVariationSettings, radius, falloff, container
    parsedSettings,   \* the useMemo value
    letterRefs,       \* letterRefs.current[i]: element attached or null
    letterStyle,      \* element.style.fontVariationSettings of letter i
    interpolatedSettingsRef, \* interpolatedSettingsRef.current[i]
    renderedSettings, \* the fontVariationSettings style prop of the last render
    mousePositionRef, \* positionRef.current of useMousePositionRef
    lastPositionRef,  \* lastPositionRef.current
    vpListeners,      \* window listeners of this instance that are registered
    rafPending,       \* animation frames requested and not yet run or cancelled
    frameId,          \* `frameId` in the closure of the current frame-loop effect
    rafNextId,        \* the id the next requestAnimationFrame returns
    vpLast,           \* the operation that ran last (history)
    pointerHistory,   \* the last pointer event and the number of events (history)
    \* ---- PillNav instance ----
    gsapReady,        \* useGsap's `loaded` state
    pillMounted,      \* the PillNav instance is in the tree
    pillRect,         \* measured <<width, height>> of every pill
    circleRefs,       \* circleRefs.current[i]: element attached or null
    circleStyle,      \* circle.style.{width,height,bottom} as assigned
    circleGsap,       \* what gsap.set / the tweens applied to the circle
    tlRefs,           \* tlRefs.current[i]: the pill's hover timeline
    activeTweenRefs,  \* activeTweenRefs.current[i]: the pill's tweenTo tween
    liveTweens,       \* tweenTo tweens of pill i that gsap still runs
    hoverLabelOpacity, \* opacity gsap applied to the pill's .pill-label-hover
    lastHover,        \* the pill's last hover event that reached its timeline (history)
    hovers,           \* hover events handled so far (history)
    resizeListener,   \* window 'resize' listener registered
    fontsReady,       \* document.fonts.ready has resolved
    fontsThen,        \* pending .then(layout) continuations on fonts.ready
    isMobileMenuOpen, \* PillNav's isMobileMenuOpen state
    menuStyle,        \* visibility and opacity of the mobile menu element
    menuTweens,       \* the tweens gsap runs on the mobile menu, in creation order
    hamburgerLines,   \* the rotation the hamburger's first line is tweened to
    toggles,          \* toggleMobileMenu calls that reached gsap so far (history)
    \* ---- calls of the pure functions ----
    fArgs,            \* calculateFalloff: the props radius and falloff
    fPrev,            \* calculateFalloff: the call before the last one
    fCur,             \* calculateFalloff: the last call, distance and result
    sFrom,            \* parsedSettings: the from specification
    sTo,              \* parsedSettings: the to specification
    sParsed,          \* parsedSettings: the useMemo value, once computed
    sOut,             \* newSettings: the falloff value used and the string built
    lLabel,           \* render: the label prop
    lRender,          \* render: the words, glyphs and separators rendered for it
    \* ---- AegisLanding: the contact form ----
    formStatus,       \* the formStatus state
    formInput,        \* which required fields of the form are filled in
    formTimers,       \* pending setTimeout callbacks: what they set and when they are due
    formClock,        \* the time, in units of 500 ms
    formHistory,      \* the status before the last change and the submissions (history)
    \* ---- ScrollReveal instances ----
    srMounted,        \* the instance is in the tree
    srLoaded,         \* the instance's gsapLoaded state
    srBlur,           \* the instance's enableBlur prop
    scrollTriggers,   \* ScrollTrigger.getAll(): the live triggers and who created them
    srNextId,         \* the number of triggers created so far, plus one
    srLast,           \* the instance whose effect cleanup ran last (history)
    \* ---- the arithmetic of the frame callback and of layout(), in binary64 ----
    bAxis,            \* an axis of parsedSettings: its fromValue and toValue
    bFrame,           \* the last frame: distance, curve, falloffValue, interpolatedValue
    bRect,            \* a pill's getBoundingClientRect(): width and height
    bLayout           \* the last layout(): R, D, delta, originY

pillVars == <<gsapReady, pillMounted, pillRect, circleRefs, circleStyle,
              circleGsap, tlRefs, activeTweenRefs, liveTweens,
              hoverLabelOpacity, lastHover, hovers, resizeListener,
              fontsReady, fontsThen, isMobileMenuOpen, menuStyle, menuTweens,
              hamburgerLines, toggles>>

menuVars == <<isMobileMenuOpen, menuStyle, menuTweens, hamburgerLines, toggles>>

vpVars == <<vpMounted, vpProps, parsedSettings, letterRefs, letterStyle,
            interpolatedSettingsRef, renderedSettings, mousePositionRef,
            lastPositionRef, vpListeners, rafPending, frameId, rafNextId, vpLast,
            pointerHistory>>

fnVars == <<fArgs, fPrev, fCur, sFrom, sTo, sParsed, sOut, lLabel, lRender>>

formVars == <<formStatus, formInput, formTimers, formClock, formHistory>>

srVars == <<srMounted, srLoaded, srBlur, scrollTriggers, srNextId, srLast>>

numVars == <<bAxis, bFrame, bRect, bLayout>>

pageVars == <<formVars, srVars, numVars>>

vars == <<vpVars, pillVars, fnVars, pageVars>>

-----------------------------------------------------------------------------
(* JavaScript numbers *)

Abs(i) == IF i < 0 THEN -i ELSE i

RECURSIVE Gcd(_, _)
Gcd(a, b) == IF b = 0 THEN a ELSE Gcd(b, a % b)

\* The rational n/d (d # 0) in lowest terms with a positive denominator.
Fin(n, d) ==
    LET g == Gcd(Abs(n), Abs(d))
        s == IF d < 0 THEN -1 ELSE 1
    IN  [k |-> "fin", n |-> (s * n) \div g, d |-> (s * d) \div g]

Num(i)  == [k |-> "fin", n |-> i, d |-> 1]
NaN     == [k |-> "nan", n |-> 0, d |-> 1]
PosInf  == [k |-> "inf", n |-> 1, d |-> 1]
NegInf  == [k |-> "inf", n |-> -1, d |-> 1]

IsFinite(a) == a.k = "fin"
IsNaN(a)    == a.k = "nan"
Sign(a)     == IF a.n > 0 THEN 1 ELSE IF a.n < 0 THEN -1 ELSE 0
InfOf(s)    == IF s > 0 THEN PosInf ELSE NegInf

Neg(a) == IF a.k = "nan" THEN NaN ELSE [a EXCEPT !.n = -a.n]

Add(a, b) ==
    IF a.k = "nan" \/ b.k = "nan" THEN NaN
    ELSE IF a.k = "inf" /\ b.k = "inf" THEN (IF a.n = b.n THEN a ELSE NaN)
    ELSE IF a.k = "inf" THEN a
    ELSE IF b.k = "inf" THEN b
    ELSE Fin(a.n * b.d + b.n * a.d, a.d * b.d)

Sub(a, b) == Add(a, Neg(b))

Mul(a, b) ==
    IF a.k = "nan" \/ b.k = "nan" THEN NaN
    ELSE IF a.k = "inf" \/ b.k = "inf"
         THEN (IF Sign(a) = 0 \/ Sign(b) = 0 THEN NaN ELSE InfOf(Sign(a) * Sign(b)))
    ELSE Fin(a.n * b.n, a.d * b.d)

\* IEEE division: x/0 is an infinity, 0/0 and Infinity/Infinity are NaN.
Div(a, b) ==
    IF a.k = "nan" \/ b.k = "nan" THEN NaN
    ELSE IF a.k = "inf" THEN (IF b.k = "inf" THEN NaN
                              ELSE InfOf(IF Sign(b) < 0 THEN -a.n ELSE a.n))
    ELSE IF b.k = "inf" THEN Num(0)
    ELSE IF b.n = 0 THEN (IF a.n = 0 THEN NaN ELSE InfOf(Sign(a)))
    ELSE Fin(a.n * b.d, a.d * b.n)

\* a < b, a <= b on numbers; every comparison with NaN is false.
Lt(a, b) ==
    IF a.k = "nan" \/ b.k = "nan" THEN FALSE
    ELSE IF a.k = "inf" THEN a.n < 0 /\ ~(b.k = "inf" /\ b.n < 0)
    ELSE IF b.k = "inf" THEN b.n > 0
    ELSE a.n * b.d < b.n * a.d

Le(a, b) == IF a.k = "nan" \/ b.k = "nan" THEN FALSE ELSE a = b \/ Lt(a, b)
Ge(a, b) == Le(b, a)
Gt(a, b) == Lt(b, a)

\* Math.max / Math.min: NaN if either argument is NaN.
MathMax(a, b) == IF a.k = "nan" \/ b.k = "nan" THEN NaN ELSE IF Lt(a, b) THEN b ELSE a
MathMin(a, b) == IF a.k = "nan" \/ b.k = "nan" THEN NaN ELSE IF Lt(b, a) THEN b ELSE a

\* Math.ceil: the identity on NaN and the infinities.
MathCeil(a) ==
    IF a.k # "fin" THEN a
    ELSE LET q == a.n \div a.d   \* floor, as \div rounds towards minus infinity
         IN  Num(IF q * a.d = a.n THEN q ELSE q + 1)

RECURSIVE ISqrtIter(_, _)
ISqrtIter(n, x) ==
    LET y == (x + n \div x) \div 2
    IN  IF y >= x THEN x ELSE ISqrtIter(n, y)

\* The integer square root (floor) of n >= 0.
ISqrt(n) == IF n < 2 THEN n ELSE ISqrtIter(n, n)

IsSquare(n) == n >= 0 /\ ISqrt(n) * ISqrt(n) = n

\* Math.sqrt: exact on the square of a rational; any other value is rounded
\* down to a multiple of 1/8 (a double rounds to 53 bits instead).
MathSqrt(a) ==
    IF a.k = "nan" THEN NaN
    ELSE IF a.k = "inf" THEN (IF a.n > 0 THEN PosInf ELSE NaN)
    ELSE IF a.n < 0 THEN NaN
    ELSE IF IsSquare(a.n) /\ IsSquare(a.d) THEN Fin(ISqrt(a.n), ISqrt(a.d))
    ELSE Fin(ISqrt((a.n * 64) \div a.d), 8)

-----------------------------------------------------------------------------
(* JavaScript numbers as IEEE 754 binary64: every operation rounds its exact
   result to 53 binary digits, ties to even *)

\* Natural numbers of any size: the sequence of their digits in base 4096,
\* lowest first, without leading zeros; <<>> is 0.
Limb == 4096
LimbBits == 12

\* The sequence with n elements that the function f is on 1..n.
Digits(f, n) == SubSeq(f, 1, n)

SetMax(S) == CHOOSE m \in S : \A x \in S : x <= m

\* a without its leading zero digits.
BigNorm(a) ==
    LET nz == {i \in 1..Len(a) : a[i] # 0}
    IN  IF nz = {} THEN <<>> ELSE SubSeq(a, 1, SetMax(nz))

RECURSIVE BigFromNat(_)
BigFromNat(n) == IF n = 0 THEN <<>> ELSE <<n % Limb>> \o BigFromNat(n \div Limb)

RECURSIVE BigToNat(_)
BigToNat(a) == IF a = <<>> THEN 0 ELSE a[1] + Limb * BigToNat(Tail(a))

BigDigitAt(a, i) == IF i >= 1 /\ i <= Len(a) THEN a[i] ELSE 0

Zeros(n) == [j \in 1..n |-> 0]

RECURSIVE Pow2(_)
Pow2(n) == IF n = 0 THEN 1 ELSE 2 * Pow2(n - 1)

RECURSIVE NatBits(_)
NatBits(n) == IF n = 0 THEN 0 ELSE 1 + NatBits(n \div 2)

\* The number of binary digits of a.
BigBits(a) == IF a = <<>> THEN 0 ELSE LimbBits * (Len(a) - 1) + NatBits(a[Len(a)])

BigOdd(a) == a # <<>> /\ a[1] % 2 = 1

\* The greatest d in 0 .. Limb - 1 with P(d), for P that holds of 0 and of
\* every digit below one it holds of: two binary digits of d at a time.
GreatestDigit(P(_)) ==
    LET Stage(d, w) == d + w * SetMax({0} \cup {k \in 1..3 : P(d + w * k)})
        d5 == Stage(0, 1024)
        d4 == Stage(d5, 256)
        d3 == Stage(d4, 64)
        d2 == Stage(d3, 16)
        d1 == Stage(d2, 4)
        d0 == Stage(d1, 1)
    IN  <<d5, d4, d3, d2, d1, d0>>[6]

\* An IEEE 754 binary64 number that is finite: sign s (1 or -1), significand m
\* (0, or 53 binary digits) and exponent e, with the value s * m * 2^e.
F64Zero == [s |-> 1, m |-> <<>>, e |-> 0]

F64Neg(a) == IF a.m = <<>> THEN a ELSE [a EXCEPT !.s = -a.s]

\* The operations on naturals and on doubles use one another; they are one
\* recursive definition, F64Apply, of the operation named op on the operands x.
RECURSIVE F64Apply(_, _)

\* -1, 0 or 1 as a < b, a = b or a > b.
BigCmp(a, b) == F64Apply("BigCmp", <<a, b>>)
\* a + b
BigAdd(a, b) == F64Apply("BigAdd", <<a, b>>)
\* a - b for a >= b
BigSub(a, b) == F64Apply("BigSub", <<a, b>>)
\* a * k for 0 <= k < Limb
BigMulSmall(a, k) == F64Apply("BigMulSmall", <<a, k>>)
\* a * b
BigMul(a, b) == F64Apply("BigMul", <<a, b>>)
\* a * 2^n
BigShl(a, n) == F64Apply("BigShl", <<a, n>>)
\* a \div 2^n
BigShr(a, n) == F64Apply("BigShr", <<a, n>>)
\* a % 2^n
BigLow(a, n) == F64Apply("BigLow", <<a, n>>)
\* <<a \div b, a % b>> for b > 0
BigDivMod(a, b) == F64Apply("BigDivMod", <<a, b>>)
\* (s + d * Limb^(p - 1))^2 - s^2 for a digit d > 0
BigSqrtTerm(s, p, d) == F64Apply("BigSqrtTerm", <<s, p, d>>)
\* <<the integer square root s of a, a - s^2>>
BigSqrtRem(a) == F64Apply("BigSqrtRem", <<a>>)
\* s * M * 2^e rounded to the nearest binary64 number, ties to even
F64Round(s, M, e) == F64Apply("F64Round", <<s, M, e>>)
\* The binary64 number nearest to the rational n / d (d > 0)
F64FromRational(n, d) == F64Apply("F64FromRational", <<n, d>>)
\* a + b before rounding: sign, magnitude and exponent
F64Sum(a, b) == F64Apply("F64Sum", <<a, b>>)
F64Add(a, b) == F64Apply("F64Add", <<a, b>>)
F64Sub(a, b) == F64Apply("F64Add", <<a, F64Neg(b)>>)
F64Mul(a, b) == F64Apply("F64Mul", <<a, b>>)
\* a / b for b # 0
F64Div(a, b) == F64Apply("F64Div", <<a, b>>)
\* Math.sqrt(a) for a >= 0
F64Sqrt(a) == F64Apply("F64Sqrt", <<a>>)
\* -1, 0 or 1 as a < b, a = b or a > b
F64Cmp(a, b) == F64Apply("F64Cmp", <<a, b>>)
\* Math.ceil(a) as an integer
F64Ceil(a) == F64Apply("F64Ceil", <<a>>)
\* The double that is the integer n
F64Int(n) == F64Apply("F64Int", <<n>>)

F64Le(a, b) == F64Cmp(a, b) <= 0
F64Lt(a, b) == F64Cmp(a, b) < 0
F64Max(a, b) == IF F64Lt(a, b) THEN b ELSE a
F64Min(a, b) == IF F64Lt(b, a) THEN b ELSE a

RECURSIVE BigMulFrom(_, _, _)
BigMulFrom(a, b, i) ==
    IF i > Len(b) THEN <<>>
    ELSE BigAdd(IF b[i] = 0 THEN <<>> ELSE Zeros(i - 1) \o BigMulSmall(a, b[i]),
                BigMulFrom(a, b, i + 1))

RECURSIVE BigDivModFrom(_, _, _, _, _)
\* Long division of a by b, digit by digit from digit i down, with the
\* quotient q and the remainder r < b so far.
BigDivModFrom(a, b, i, q, r) ==
    IF i = 0 THEN <<BigNorm(q), r>>
    ELSE LET r2 == BigNorm(<<a[i]>> \o r)
             d == GreatestDigit(LAMBDA k : k = 0 \/ BigCmp(BigMulSmall(b, k), r2) <= 0)
         IN  IF d = 0
             THEN BigDivModFrom(a, b, i - 1, <<0>> \o q, r2)
             ELSE BigDivModFrom(a, b, i - 1, <<d>> \o q, BigSub(r2, BigMulSmall(b, d)))

RECURSIVE BigSqrtFrom(_, _, _)
\* The integer square root of a number, digit by digit from digit p down,
\* with the digits s found so far and rem the number less s^2: the root and
\* what is left of the number.
BigSqrtFrom(rem, s, p) ==
    IF p = 0 THEN <<s, rem>>
    ELSE LET d == GreatestDigit(LAMBDA k : k = 0 \/ BigCmp(BigSqrtTerm(s, p, k), rem) <= 0)
         IN  IF d = 0
             THEN BigSqrtFrom(rem, s, p - 1)
             ELSE BigSqrtFrom(BigSub(rem, BigSqrtTerm(s, p, d)),
                              BigAdd(s, Zeros(p - 1) \o <<d>>), p - 1)

F64Apply(op, x) ==
    CASE Len(x) = 0 -> <<>>
      [] op = "BigCmp" ->
            LET a == x[1]
                b == x[2]
                d == {i \in 1..Len(a) : a[i] # BigDigitAt(b, i)}
            IN  IF Len(a) < Len(b) THEN -1
                ELSE IF Len(a) > Len(b) THEN 1
                ELSE IF d = {} THEN 0
                ELSE IF a[SetMax(d)] < b[SetMax(d)] THEN -1 ELSE 1
      \* digit i takes a carry when a lower digit overflows and every digit
      \* between is full
      [] op = "BigAdd" ->
            LET a == x[1]
                b == x[2]
                n == IF Len(a) > Len(b) THEN Len(a) ELSE Len(b)
                s == Digits([i \in 1..n |-> BigDigitAt(a, i) + BigDigitAt(b, i)], n)
                c == Digits([i \in 1..(n + 1) |->
                                IF \E j \in 1..(i - 1) :
                                      s[j] >= Limb /\ \A k \in (j + 1)..(i - 1) : s[k] = Limb - 1
                                THEN 1 ELSE 0], n + 1)
            IN  BigNorm(Digits([i \in 1..(n + 1) |->
                                   IF i <= n THEN (s[i] + c[i]) % Limb ELSE c[i]], n + 1))
      \* digit i gives a borrow when a lower digit of a is less than that of b
      \* and every digit between is equal
      [] op = "BigSub" ->
            LET a == x[1]
                b == x[2]
                w == Digits([i \in 1..Len(a) |->
                                IF \E j \in 1..(i - 1) :
                                      a[j] < BigDigitAt(b, j)
                                      /\ \A k \in (j + 1)..(i - 1) : a[k] = BigDigitAt(b, k)
                                THEN 1 ELSE 0], Len(a))
            IN  BigNorm(Digits([i \in 1..Len(a) |->
                                   (a[i] - BigDigitAt(b, i) - w[i] + Limb) % Limb], Len(a)))
      [] op = "BigMulSmall" ->
            LET a == x[1]
                k == x[2]
            IN  IF k = 0 \/ a = <<>> THEN <<>>
                ELSE BigAdd(Digits([i \in 1..Len(a) |-> (a[i] * k) % Limb], Len(a)),
                            <<0>> \o [i \in 1..Len(a) |-> (a[i] * k) \div Limb])
      [] op = "BigMul" ->
            IF x[1] = <<>> \/ x[2] = <<>> THEN <<>> ELSE BigMulFrom(x[1], x[2], 1)
      [] op = "BigShl" ->
            LET a == x[1]
                n == x[2]
            IN  IF a = <<>> THEN <<>>
                ELSE Zeros(n \div LimbBits) \o BigMulSmall(a, Pow2(n % LimbBits))
      [] op = "BigShr" ->
            LET a == x[1]
                n == x[2]
                whole == n \div LimbBits
                p == Pow2(n % LimbBits)
            IN  BigNorm(Digits([i \in 1..(Len(a) - whole) |->
                                   a[whole + i] \div p
                                   + (BigDigitAt(a, whole + i + 1) % p) * (Limb \div p)],
                               IF Len(a) > whole THEN Len(a) - whole ELSE 0))
      [] op = "BigLow" ->
            BigSub(x[1], BigShl(BigShr(x[1], x[2]), x[2]))
      \* the leading digits of a that are fewer than those of b are a
      \* remainder already
      [] op = "BigDivMod" ->
            LET a == x[1]
                b == x[2]
                k == IF Len(a) < Len(b) THEN Len(a) ELSE Len(b) - 1
            IN  BigDivModFrom(a, b, Len(a) - k, <<>>, SubSeq(a, Len(a) - k + 1, Len(a)))
      [] op = "BigSqrtTerm" ->
            LET s == x[1]
                p == x[2]
                d == x[3]
            IN  Zeros(p - 1) \o BigMulSmall(BigAdd(BigShl(s, 1), Zeros(p - 1) \o <<d>>), d)
      [] op = "BigSqrtRem" ->
            BigSqrtFrom(x[1], <<>>, (Len(x[1]) + 1) \div 2)
      [] op = "F64Round" ->
            LET s == x[1]
                M == x[2]
                e == x[3]
                bits == BigBits(M)
            IN  IF M = <<>> THEN F64Zero
                ELSE IF bits <= 53
                THEN [s |-> s, m |-> BigShl(M, 53 - bits), e |-> e - (53 - bits)]
                ELSE LET cut == bits - 53
                         kept == BigShr(M, cut)
                         low == BigLow(M, cut)
                         half == BigShl(<<1>>, cut - 1)
                         c == BigCmp(low, half)
                         up == c > 0 \/ (c = 0 /\ BigOdd(kept))
                         m == IF up THEN BigAdd(kept, <<1>>) ELSE kept
                     IN  IF BigBits(m) > 53
                         THEN [s |-> s, m |-> BigShr(m, 1), e |-> e + cut + 1]
                         ELSE [s |-> s, m |-> m, e |-> e + cut]
      [] op = "F64FromRational" ->
            LET n == x[1]
                d == x[2]
                a == BigFromNat(IF n < 0 THEN -n ELSE n)
                b == BigFromNat(d)
                k == 56 + BigBits(b)
                qr == BigDivMod(BigShl(a, k), b)
                sticky == IF qr[2] = <<>> THEN <<>> ELSE <<1>>
            IN  F64Round(IF n < 0 THEN -1 ELSE 1, BigAdd(BigShl(qr[1], 1), sticky), -k - 1)
      [] op = "F64Sum" ->
            LET a == x[1]
                b == x[2]
            IN  IF a.m = <<>> THEN b
                ELSE IF b.m = <<>> THEN a
                ELSE LET e == IF a.e < b.e THEN a.e ELSE b.e
                         A == BigShl(a.m, a.e - e)
                         B == BigShl(b.m, b.e - e)
                         c == BigCmp(A, B)
                     IN  IF a.s = b.s THEN [s |-> a.s, m |-> BigAdd(A, B), e |-> e]
                         ELSE IF c = 0 THEN F64Zero
                         ELSE IF c > 0 THEN [s |-> a.s, m |-> BigSub(A, B), e |-> e]
                         ELSE [s |-> b.s, m |-> BigSub(B, A), e |-> e]
      [] op = "F64Add" ->
            LET u == F64Sum(x[1], x[2]) IN F64Round(u.s, u.m, u.e)
      [] op = "F64Mul" ->
            LET a == x[1]
                b == x[2]
            IN  IF a.m = <<>> \/ b.m = <<>> THEN F64Zero
                ELSE F64Round(a.s * b.s, BigMul(a.m, b.m), a.e + b.e)
      [] op = "F64Div" ->
            LET a == x[1]
                b == x[2]
            IN  IF a.m = <<>> THEN F64Zero
                ELSE LET qr == BigDivMod(BigShl(a.m, 56), b.m)
                         sticky == IF qr[2] = <<>> THEN <<>> ELSE <<1>>
                     IN  F64Round(a.s * b.s, BigAdd(BigShl(qr[1], 1), sticky),
                                  a.e - b.e - 57)
      [] op = "F64Sqrt" ->
            LET a == x[1]
            IN  IF a.m = <<>> THEN F64Zero
                ELSE LET odd == a.e % 2 # 0
                         N == BigShl(a.m, 56 + (IF odd THEN 1 ELSE 0))
                         e == (IF odd THEN a.e - 1 ELSE a.e) - 56
                         sr == BigSqrtRem(N)
                         sticky == IF sr[2] = <<>> THEN <<>> ELSE <<1>>
                     IN  F64Round(1, BigAdd(BigShl(sr[1], 1), sticky), e \div 2 - 1)
      [] op = "F64Cmp" ->
            LET a == x[1]
                b == x[2]
                mag == IF a.m = <<>> THEN (IF b.m = <<>> THEN 0 ELSE -1)
                       ELSE IF b.m = <<>> THEN 1
                       ELSE IF a.e < b.e THEN -1
                       ELSE IF a.e > b.e THEN 1
                       ELSE BigCmp(a.m, b.m)
                sa == IF a.m = <<>> THEN 0 ELSE a.s
                sb == IF b.m = <<>> THEN 0 ELSE b.s
            IN  IF sa < sb THEN -1
                ELSE IF sa > sb THEN 1
                ELSE IF sa >= 0 THEN mag ELSE -mag
      [] op = "F64Ceil" ->
            LET a == x[1]
            IN  IF a.m = <<>> THEN 0
                ELSE IF a.e >= 0 THEN a.s * BigToNat(BigShl(a.m, a.e))
                ELSE LET q == BigToNat(BigShr(a.m, -a.e))
                         exact == BigLow(a.m, -a.e) = <<>>
                     IN  IF a.s > 0 THEN (IF exact THEN q ELSE q + 1) ELSE -q
      [] op = "F64Int" ->
            F64Round(IF x[1] < 0 THEN -1 ELSE 1,
                     BigFromNat(IF x[1] < 0 THEN -x[1] ELSE x[1]), 0)

-----------------------------------------------------------------------------
(* Number to string, as a template literal `${x}` converts it *)

DigitChar == <<"0", "1", "2", "3", "4", "5", "6", "7", "8", "9">>

RECURSIVE NatToString(_)
NatToString(n) ==
    IF n < 10 THEN <<DigitChar[n + 1]>>
    ELSE NatToString(n \div 10) \o <<DigitChar[(n % 10) + 1]>>

\* The decimal digits of r/d (0 <= r < d), at most k of them.
RECURSIVE FracToString(_, _, _)
FracToString(r, d, k) ==
    IF r = 0 \/ k = 0 THEN <<>>
    ELSE <<DigitChar[((r * 10) \div d) + 1]>> \o FracToString((r * 10) % d, d, k - 1)

NumberToString(a) ==
    IF a.k = "nan" THEN <<"N", "a", "N">>
    ELSE IF a.k = "inf"
         THEN (IF a.n < 0 THEN <<"-">> ELSE <<>>) \o <<"I", "n", "f", "i", "n", "i", "t", "y">>
    ELSE LET m == Abs(a.n)
             whole == NatToString(m \div a.d)
             frac == FracToString(m % a.d, a.d, 12)
         IN  (IF a.n < 0 THEN <<"-">> ELSE <<>>) \o whole
             \o (IF frac = <<>> THEN <<>> ELSE <<".">> \o frac)

-----------------------------------------------------------------------------
(* JavaScript string functions, on sequences of characters *)

IsWhitespace(c) == c \in {" ", "\t", "\n"}
IsDigit(c) == c \in {"0", "1", "2", "3", "4", "5", "6", "7", "8", "9"}
DigitValue(c) == CHOOSE v \in 0..9 : DigitChar[v + 1] = c

RECURSIVE SplitFrom(_, _, _, _)
SplitFrom(s, sep, i, cur) ==
    IF i > Len(s) THEN <<cur>>
    ELSE IF s[i] = sep THEN <<cur>> \o SplitFrom(s, sep, i + 1, <<>>)
    ELSE SplitFrom(s, sep, i + 1, Append(cur, s[i]))

\* s.split(sep) for a one character separator: "" splits into [""].
Split(s, sep) == SplitFrom(s, sep, 1, <<>>)

RECURSIVE TrimStart(_)
TrimStart(s) == IF s # <<>> /\ IsWhitespace(Head(s)) THEN TrimStart(Tail(s)) ELSE s

RECURSIVE TrimEnd(_)
TrimEnd(s) ==
    IF s # <<>> /\ IsWhitespace(s[Len(s)]) THEN TrimEnd(SubSeq(s, 1, Len(s) - 1)) ELSE s

\* s.trim()
Trim(s) == TrimEnd(TrimStart(s))

IsQuote(c) == c \in {"'", "\""}
NotQuote(c) == ~IsQuote(c)

\* name.replace(/['"]/g, '')
RemoveQuotes(s) == SelectSeq(s, NotQuote)

\* The number of digits of s from position i on.
RECURSIVE DigitRun(_, _)
DigitRun(s, i) == IF i <= Len(s) /\ IsDigit(s[i]) THEN 1 + DigitRun(s, i + 1) ELSE 0

\* The value of the n digits of s from position i on, after the digits of acc.
RECURSIVE DigitsValue(_, _, _, _)
DigitsValue(s, i, n, acc) ==
    IF n = 0 THEN acc ELSE DigitsValue(s, i + 1, n - 1, acc * 10 + DigitValue(s[i]))

RECURSIVE Pow10(_)
Pow10(n) == IF n = 0 THEN 1 ELSE 10 * Pow10(n - 1)

\* What `undefined` converts to when parseFloat takes it as a string.
UndefinedString == <<"u", "n", "d", "e", "f", "i", "n", "e", "d">>

\* parseFloat: leading whitespace is skipped and the longest prefix that is a
\* decimal literal (sign, digits, fraction) is the value; NaN if there is none.
\* Exponents and the literal Infinity do not occur in the strings of this model.
ParseFloatOrZero(str) ==
    LET s == TrimStart(str)
        signed == s # <<>> /\ s[1] \in {"+", "-"}
        start == IF signed THEN 2 ELSE 1
        nInt == DigitRun(s, start)
        dot == start + nInt
        nFrac == IF dot <= Len(s) /\ s[dot] = "." THEN DigitRun(s, dot + 1) ELSE 0
        whole == DigitsValue(s, start, nInt, 0)
        all == DigitsValue(s, dot + 1, nFrac, whole)
    IN  IF nInt = 0 /\ nFrac = 0 THEN Fin(0, 1)
        ELSE Fin(IF signed /\ s[1] = "-" THEN -all ELSE all, Pow10(nFrac))

ParseFloat(str) ==
    LET s == TrimStart(str)
        signed == s # <<>> /\ s[1] \in {"+", "-"}
        start == IF signed THEN 2 ELSE 1
        nInt == DigitRun(s, start)
        dot == start + nInt
        nFrac == IF dot <= Len(s) /\ s[dot] = "." THEN DigitRun(s, dot + 1) ELSE 0
        whole == DigitsValue(s, start, nInt, 0)
        all == DigitsValue(s, dot + 1, nFrac, whole)
    IN  IF nInt = 0 /\ nFrac = 0 THEN NaN
        ELSE Fin(IF signed /\ s[1] = "-" THEN -all ELSE all, Pow10(nFrac))

-----------------------------------------------------------------------------
(* VariableProximity: parsedSettings *)

\* A Map as the sequence of its <<key, value>> entries in insertion order.
MapHas(m, key) == \E j \in 1..Len(m) : m[j][1] = key
MapGet(m, key) == m[CHOOSE j \in 1..Len(m) : m[j][1] = key][2]
MapSet(m, key, value) ==
    IF MapHas(m, key)
    THEN [j \in 1..Len(m) |-> IF m[j][1] = key THEN <<key, value>> ELSE m[j]]
    ELSE Append(m, <<key, value>>)

RECURSIVE MapFrom(_, _)
MapFrom(entries, m) ==
    IF entries = <<>> THEN m
    ELSE MapFrom(Tail(entries), MapSet(m, Head(entries)[1], Head(entries)[2]))

\* One `name value` item of a settings string: [name.replace(...), parseFloat(value)].
ParseItem(item) ==
    LET parts == Split(item, " ")
        value == IF Len(parts) >= 2 THEN parts[2] ELSE UndefinedString
    IN  <<RemoveQuotes(parts[1]), ParseFloat(value)>>

\* parseSettings(settingsStr)
ParseSettings(settingsStr) ==
    LET items == Split(settingsStr, ",")
    IN  MapFrom([j \in 1..Len(items) |-> ParseItem(Trim(items[j]))], <<>>)

\* parsedSettings with 0 for an axis the to Map does not have.
ParsedSettingsZeroDefault(fromStr, toStr) ==
    LET fromSettings == ParseSettings(fromStr)
        toSettings == ParseSettings(toStr)
    IN  [j \in 1..Len(fromSettings) |->
            [axis |-> fromSettings[j][1],
             fromValue |-> fromSettings[j][2],
             toValue |-> IF MapHas(toSettings, fromSettings[j][1])
                         THEN MapGet(toSettings, fromSettings[j][1])
                         ELSE Num(0)]]

\* parsedSettings: one {axis, fromValue, toValue} per entry of the from Map.
ParsedSettings(fromStr, toStr) ==
    LET fromSettings == ParseSettings(fromStr)
        toSettings == ParseSettings(toStr)
    IN  [j \in 1..Len(fromSettings) |->
            [axis |-> fromSettings[j][1],
             fromValue |-> fromSettings[j][2],
             toValue |-> IF MapHas(toSettings, fromSettings[j][1])
                         THEN MapGet(toSettings, fromSettings[j][1])
                         ELSE fromSettings[j][2]]]

\* An axis formatted with double quotes around its name.
AxisSettingDoubleQuoted(p, w) ==
    <<"\"">> \o p.axis \o <<"\"", " ">>
    \o NumberToString(Add(p.fromValue, Mul(Sub(p.toValue, p.fromValue), w)))

\* An axis interpolated from the to value towards the from value.
AxisSettingReversed(p, w) ==
    <<"'">> \o p.axis \o <<"'", " ">>
    \o NumberToString(Add(p.toValue, Mul(Sub(p.fromValue, p.toValue), w)))

\* `'${axis}' ${interpolatedValue}` for one axis at falloff value w.
AxisSetting(p, w) ==
    <<"'">> \o p.axis \o <<"'", " ">>
    \o NumberToString(Add(p.fromValue, Mul(Sub(p.toValue, p.fromValue), w)))

RECURSIVE Join(_, _)
Join(strs, sep) ==
    IF strs = <<>> THEN <<>>
    ELSE IF Len(strs) = 1 THEN strs[1]
    ELSE strs[1] \o sep \o Join(Tail(strs), sep)

\* newSettings: the axes formatted and joined with ", ".
NewSettings(parsed, w) ==
    Join([j \in 1..Len(parsed) |-> AxisSetting(parsed[j], w)], <<",", " ">>)

-----------------------------------------------------------------------------
(* VariableProximity: calculateDistance and calculateFalloff *)

Square(a) == Mul(a, a)

\* calculateDistance(x1, y1, x2, y2)
CalculateDistance(x1, y1, x2, y2) ==
    MathSqrt(Add(Square(Sub(x2, x1)), Square(Sub(y2, y1))))

\* The smallest x for which a double's Math.exp(-x) is 0 is close to 745.14.
ExpUnderflow == Fin(74514, 100)

\* e^-m, m a natural number, in units of 1/1024, rounded down.
RECURSIVE ExpNegInt(_)
ExpNegInt(m) == IF m = 0 THEN 1024 ELSE (ExpNegInt(m - 1) * 377) \div 1024

\* e^-(F/1024) for 0 <= F < 1024 in units of 1/1024: the Taylor polynomial of
\* degree 5 in Horner form.
ExpNegFrac(F) ==
    LET h5 == 1024 - F \div 5
        h4 == 1024 - (F * h5) \div (4 * 1024)
        h3 == 1024 - (F * h4) \div (3 * 1024)
        h2 == 1024 - (F * h3) \div (2 * 1024)
    IN  1024 - (F * h2) \div 1024

\* Math.exp(a) for a <= 0: exactly 1 at 0, exactly 0 once the result is below
\* the smallest double, and otherwise a value in (0, 1), here to 10 binary
\* places and kept within [1/1024, 1023/1024]: for the arguments calculateFalloff
\* produces here (at least 1/32 in magnitude) the double is below 1, and above
\* the underflow threshold it is not 0.
MathExp(a) ==
    IF a.k = "nan" THEN NaN
    ELSE IF a.k = "inf" THEN (IF a.n < 0 THEN Num(0) ELSE PosInf)
    ELSE IF a.n = 0 THEN Num(1)
    ELSE IF Ge(Neg(a), ExpUnderflow) THEN Num(0)
    ELSE LET x == Neg(a)
             m == x.n \div x.d
             F == ((x.n % x.d) * 1024) \div x.d
             v == IF m > 8 THEN 0 ELSE (ExpNegInt(m) * ExpNegFrac(F)) \div 1024
         IN  Fin(IF v < 1 THEN 1 ELSE IF v > 1023 THEN 1023 ELSE v, 1024)

\* calculateFalloff with the norm growing with the distance.
CalculateFalloffInverted(distance, radius, falloff) ==
    LET norm == MathMin(MathMax(Div(distance, radius), Num(0)), Num(1))
    IN  CASE falloff = "exponential" -> Square(norm)
          [] falloff = "gaussian" ->
                MathExp(Div(Neg(Square(Div(distance, Div(radius, Num(2))))), Num(2)))
          [] OTHER -> norm

\* calculateFalloff with the gaussian curve cut to 0 at the radius.
CalculateFalloffCutoff(distance, radius, falloff) ==
    LET norm == MathMin(MathMax(Sub(Num(1), Div(distance, radius)), Num(0)), Num(1))
    IN  CASE falloff = "exponential" -> Square(norm)
          [] falloff = "gaussian" ->
                IF Ge(distance, radius) THEN Num(0)
                ELSE MathExp(Div(Neg(Square(Div(distance, Div(radius, Num(2))))), Num(2)))
          [] OTHER -> norm

\* calculateFalloff with norm left unclamped.
CalculateFalloffUnclamped(distance, radius, falloff) ==
    LET norm == Sub(Num(1), Div(distance, radius))
    IN  CASE falloff = "exponential" -> Square(norm)
          [] falloff = "gaussian" ->
                MathExp(Div(Neg(Square(Div(distance, Div(radius, Num(2))))), Num(2)))
          [] OTHER -> norm

\* calculateFalloff(distance) with the props radius and falloff.
CalculateFalloff(distance, radius, falloff) ==
    LET norm == MathMin(MathMax(Sub(Num(1), Div(distance, radius)), Num(0)), Num(1))
    IN  CASE falloff = "exponential" -> Square(norm)
          [] falloff = "gaussian" ->
                MathExp(Div(Neg(Square(Div(distance, Div(radius, Num(2))))), Num(2)))
          [] OTHER -> norm

-----------------------------------------------------------------------------
(* VariableProximity: the instance *)

MaxFrameId == 5

NoString == <<>>

\* lastPositionRef before the first frame, {x: null, y: null}: no sample.
NoPosition == <<>>

\* The axis specifications the instance is given.
Wght400   == <<"'", "w", "g", "h", "t", "'", " ", "4", "0", "0">>
Wght400DQ == <<"\"", "w", "g", "h", "t", "\"", " ", "4", "0", "0">>
WghtOnly  == <<"'", "w", "g", "h", "t", "'">>
Wght800   == <<"'", "w", "g", "h", "t", "'", " ", "8", "0", "0">>
Wdth90    == <<"'", "w", "d", "t", "h", "'", " ", "9", "0">>
WghtWdth  == <<"'", "w", "g", "h", "t", "'", " ", "4", "0", "0", ",", " ",
               "'", "w", "d", "t", "h", "'", " ", "9", "0">>
WdthWght  == <<"'", "w", "d", "t", "h", "'", " ", "7", "5", ",", " ",
               "'", "w", "g", "h", "t", "'", " ", "8", "0", "0">>

VPFromSpecs == {Wght400, Wght400DQ, WghtOnly, WghtWdth}
VPToSpecs   == {Wght800, Wdth90, WdthWght}
VPFalloffs  == {"linear", "exponential", "gaussian"}
VPRadii     == {4}
VPLabel     == <<"a", " ", "b">>

\* getBoundingClientRect of the container and of letter i (viewport coordinates).
ContainerRect == [left |-> 1, top |-> 1]
LetterRect(i) == [left |-> ContainerRect.left + 4 * (i - 1), top |-> ContainerRect.top,
                  width |-> 4, height |-> 4]

\* clientX, clientY of the pointer events.
ClientPoints == {<<3, 3>>, <<3, 6>>, <<7, 7>>, <<31, 31>>}

\* The letters of a label in glyph order: label.split(' '), every word split
\* into characters, letterIndex counting on through the words.
RECURSIVE Concat(_)
Concat(seqs) == IF seqs = <<>> THEN <<>> ELSE Head(seqs) \o Concat(Tail(seqs))
Letters(label) == Concat(Split(label, " "))
LetterIndices == 1..Len(Letters(VPLabel))

\* No pointer event yet: no client point, no events counted (the count stops at 2).
NoPointer == [client |-> <<>>, events |-> 0]

\* updatePosition(x, y)
UpdatePosition(x, y) ==
    IF vpProps.container
    THEN <<x - ContainerRect.left, y - ContainerRect.top>>
    ELSE <<x, y>>

\* The distance of letter i's centre from the pointer sample `mouse`.
LetterDistance(i, mouse) ==
    LET rect == LetterRect(i)
        cx0 == Add(Num(rect.left), Div(Num(rect.width), Num(2)))
        cy0 == Add(Num(rect.top), Div(Num(rect.height), Num(2)))
        cx == IF vpProps.container THEN Sub(cx0, Num(ContainerRect.left)) ELSE cx0
        cy == IF vpProps.container THEN Sub(cy0, Num(ContainerRect.top)) ELSE cy0
    IN  CalculateDistance(Num(mouse[1]), Num(mouse[2]), cx, cy)

\* A reset that formats the parsed from values instead of using the raw string.
ResetStyleReformatted == NewSettings(parsedSettings, Num(0))

\* What the frame callback assigns to letter i's style: the raw from string at
\* or beyond the radius, the interpolated settings inside it.
ResetStyle == vpProps.from
FrameStyle(i, mouse) ==
    LET distance == LetterDistance(i, mouse)
    IN  IF Ge(distance, Num(vpProps.radius))
        THEN ResetStyle
        ELSE NewSettings(parsedSettings,
                         CalculateFalloff(distance, Num(vpProps.radius), vpProps.falloff))

LetterInside(i, mouse) == ~Ge(LetterDistance(i, mouse), Num(vpProps.radius))

\* The callback with the early return on an unchanged pointer sample.
FrameCallbackSkipUnchanged ==
    LET mouse == mousePositionRef
    IN  IF lastPositionRef # NoPosition /\ lastPositionRef = mouse
        THEN UNCHANGED <<lastPositionRef, letterStyle, interpolatedSettingsRef>>
        ELSE /\ lastPositionRef' = mouse
             /\ letterStyle' = [i \in LetterIndices |->
                   IF letterRefs[i] THEN FrameStyle(i, mouse) ELSE letterStyle[i]]
             /\ interpolatedSettingsRef' = [i \in LetterIndices |->
                   IF letterRefs[i] /\ LetterInside(i, mouse)
                   THEN FrameStyle(i, mouse)
                   ELSE interpolatedSettingsRef[i]]

\* A callback that gives up the whole frame when a letter has no element.
FrameCallbackAbortOnNull ==
    LET mouse == mousePositionRef
    IN  /\ lastPositionRef' = mouse
        /\ letterStyle' = [i \in LetterIndices |->
              IF \A j \in LetterIndices : letterRefs[j]
              THEN FrameStyle(i, mouse) ELSE letterStyle[i]]
        /\ interpolatedSettingsRef' = [i \in LetterIndices |->
              IF (\A j \in LetterIndices : letterRefs[j]) /\ LetterInside(i, mouse)
              THEN FrameStyle(i, mouse)
              ELSE interpolatedSettingsRef[i]]

\* The callback given to useAnimationFrame.
FrameCallback ==
    LET mouse == mousePositionRef
    IN  /\ lastPositionRef' = mouse
        /\ letterStyle' = [i \in LetterIndices |->
              IF letterRefs[i] THEN FrameStyle(i, mouse) ELSE letterStyle[i]]
        /\ interpolatedSettingsRef' = [i \in LetterIndices |->
              IF letterRefs[i] /\ LetterInside(i, mouse)
              THEN FrameStyle(i, mouse)
              ELSE interpolatedSettingsRef[i]]

InitVP ==
    /\ vpMounted = TRUE
    /\ vpProps \in [label : {VPLabel}, from : VPFromSpecs, to : VPToSpecs,
                    radius : VPRadii, falloff : VPFalloffs, container : BOOLEAN]
    /\ parsedSettings = ParsedSettings(vpProps.from, vpProps.to)
    /\ letterRefs = [i \in LetterIndices |-> TRUE]
    /\ letterStyle = [i \in LetterIndices |-> NoString]
    /\ interpolatedSettingsRef = [i \in LetterIndices |-> NoString]
    /\ renderedSettings = [i \in LetterIndices |-> NoString]
    /\ mousePositionRef = <<0, 0>>
    /\ lastPositionRef = NoPosition
    /\ vpListeners = {"mousemove", "touchmove"}
    /\ rafPending = {1}
    /\ frameId = 1
    /\ rafNextId = 2
    /\ vpLast = "mount"
    /\ pointerHistory = NoPointer

\* A pointer handler that keeps the first sample written.
PointerEventFirstWins(type) ==
    \E pt \in ClientPoints :
        /\ mousePositionRef' = IF type \in vpListeners /\ pointerHistory.events = 0
                               THEN UpdatePosition(pt[1], pt[2])
                               ELSE mousePositionRef
        /\ pointerHistory' = [pointerHistory EXCEPT
              !.client = pt,
              !.events = IF @ < 2 THEN @ + 1 ELSE @]
        /\ vpLast' = "move"
        /\ UNCHANGED <<pillVars, fnVars, pageVars>>
        /\ UNCHANGED <<vpMounted, vpProps, parsedSettings, letterRefs, letterStyle,
                       interpolatedSettingsRef, renderedSettings, lastPositionRef,
                       vpListeners, rafPending, frameId, rafNextId>>

\* A pointer event on the window: the handler, if still registered, stores the sample.
PointerEvent(type) ==
    \E pt \in ClientPoints :
        /\ mousePositionRef' = IF type \in vpListeners
                               THEN UpdatePosition(pt[1], pt[2])
                               ELSE mousePositionRef
        /\ pointerHistory' = [pointerHistory EXCEPT
              !.client = pt,
              !.events = IF @ < 2 THEN @ + 1 ELSE @]
        /\ vpLast' = "move"
        /\ UNCHANGED <<pillVars, fnVars, pageVars>>
        /\ UNCHANGED <<vpMounted, vpProps, parsedSettings, letterRefs, letterStyle,
                       interpolatedSettingsRef, renderedSettings, lastPositionRef,
                       vpListeners, rafPending, frameId, rafNextId>>

MouseMove == PointerEvent("mousemove")
TouchMove == PointerEvent("touchmove")

\* The browser runs a requested frame: loop() calls the callback and requests
\* the next frame, storing its id in the effect's frameId.
FrameTick ==
    \E id \in rafPending :
        /\ rafNextId <= MaxFrameId
        /\ FrameCallback
        /\ rafPending' = (rafPending \ {id}) \cup {rafNextId}
        /\ frameId' = IF id = frameId THEN rafNextId ELSE frameId
        /\ rafNextId' = rafNextId + 1
        /\ vpLast' = "frame"
        /\ UNCHANGED <<pillVars, fnVars, pageVars, pointerHistory>>
        /\ UNCHANGED <<vpMounted, vpProps, parsedSettings, letterRefs,
                       renderedSettings, mousePositionRef, vpListeners>>

\* A cleanup of the frame-loop effect that cancels nothing.
CancelFrameNothing == rafPending

\* cancelAnimationFrame(frameId) of the frame-loop effect's cleanup.
CancelFrame == rafPending \ {frameId}

\* The instance renders again with the same props: React applies the style
\* prop where it differs from the last render's, and the frame-loop effect
\* (its callback is a new function on every render) is cleaned up and run again.
Rerender ==
    /\ vpMounted
    /\ rafNextId <= MaxFrameId
    /\ renderedSettings' = [i \in LetterIndices |->
          IF letterRefs[i] THEN interpolatedSettingsRef[i] ELSE renderedSettings[i]]
    /\ letterStyle' = [i \in LetterIndices |->
          IF letterRefs[i] /\ interpolatedSettingsRef[i] # renderedSettings[i]
          THEN interpolatedSettingsRef[i]
          ELSE letterStyle[i]]
    /\ rafPending' = CancelFrame \cup {rafNextId}
    /\ frameId' = rafNextId
    /\ rafNextId' = rafNextId + 1
    /\ vpLast' = "render"
    /\ UNCHANGED <<pillVars, fnVars, pageVars>>
    /\ UNCHANGED <<vpMounted, vpProps, parsedSettings, letterRefs,
                   interpolatedSettingsRef, mousePositionRef, lastPositionRef,
                   vpListeners, pointerHistory>>

\* An unmount after which nothing is torn down: the refs keep their elements,
\* the frame stays requested and the listeners stay registered.
UnmountVPNoTeardown ==
    /\ vpMounted
    /\ vpMounted' = FALSE
    /\ vpLast' = "unmount"
    /\ UNCHANGED <<pillVars, fnVars, pageVars>>
    /\ UNCHANGED <<vpProps, parsedSettings, letterRefs, letterStyle,
                   interpolatedSettingsRef, renderedSettings, mousePositionRef,
                   lastPositionRef, vpListeners, rafPending, frameId, rafNextId,
                   pointerHistory>>

\* The instance is unmounted: React detaches the letter refs and runs the
\* cleanups of both effects.
UnmountVP ==
    /\ vpMounted
    /\ vpMounted' = FALSE
    /\ letterRefs' = [i \in LetterIndices |-> FALSE]
    /\ rafPending' = CancelFrame
    /\ vpListeners' = {}
    /\ vpLast' = "unmount"
    /\ UNCHANGED <<pillVars, fnVars, pageVars>>
    /\ UNCHANGED <<vpProps, parsedSettings, letterStyle, interpolatedSettingsRef,
                   renderedSettings, mousePositionRef, lastPositionRef, frameId,
                   rafNextId, pointerHistory>>

NextVP ==
    \/ MouseMove
    \/ TouchMove
    \/ FrameTick
    \/ Rerender
    \/ UnmountVP

-----------------------------------------------------------------------------
(* PillNav: the radial hover accent *)

Pills == {1, 2}

\* Measured <<width, height>> of a pill (getBoundingClientRect); on these
\* sizes double arithmetic is exact, so the rationals below are the code's values.
PillSizes == {<<100, 40>>, <<48, 32>>, <<100, 0>>}

MaxFontsThen == 2

MaxHovers == 2

NoTimeline == [exists |-> FALSE, time |-> Num(0)]
NoTween == [exists |-> FALSE, to |-> 0, stale |-> FALSE, running |-> FALSE,
            start |-> Num(0), duration |-> 0, elapsed |-> 0]
TimelineEnd == 2   \* tl.duration(): every child tween has duration 2 at position 0

\* The durations of the tweenTo tweens, in tenths of a second (one tick of gsap's
\* ticker in this model).
EnterDuration == 3
LeaveDuration == 2

Px(a) == NumberToString(a) \o <<"p", "x">>

\* PillGeometry without the two pixels of margin on the diameter.
PillGeometryNoMargin(w, h) ==
    LET W == Num(w)
        H == Num(h)
        R == Div(Add(Div(Mul(W, W), Num(4)), Mul(H, H)), Mul(Num(2), H))
        D == MathCeil(Mul(Num(2), R))
        delta == Add(MathCeil(Sub(R, MathSqrt(MathMax(Num(0),
                     Sub(Mul(R, R), Div(Mul(W, W), Num(4))))))), Num(1))
        originY == Sub(D, delta)
    IN  [R |-> R, D |-> D, delta |-> delta, originY |-> originY]

\* R, D, delta and originY of a pill of width w and height h.
PillGeometry(w, h) ==
    LET W == Num(w)
        H == Num(h)
        R == Div(Add(Div(Mul(W, W), Num(4)), Mul(H, H)), Mul(Num(2), H))
        D == Add(MathCeil(Mul(Num(2), R)), Num(2))
        delta == Add(MathCeil(Sub(R, MathSqrt(MathMax(Num(0),
                     Sub(Mul(R, R), Div(Mul(W, W), Num(4))))))), Num(1))
        originY == Sub(D, delta)
    IN  [R |-> R, D |-> D, delta |-> delta, originY |-> originY]

\* circle.style.width / height / bottom as layout assigns them.
LayoutCircleStyle(w, h) ==
    LET g == PillGeometry(w, h)
    IN  [width  |-> Px(g.D),
         height |-> Px(g.D),
         bottom |-> <<"-">> \o Px(g.delta)]

\* gsap.set(circle, {xPercent: -50, scale: 0, transformOrigin: `50% ${originY}px`}).
LayoutCircleGsap(w, h) ==
    LET g == PillGeometry(w, h)
    IN  [scale |-> Num(0),
         transformOrigin |-> <<"5", "0", "%", " ">> \o Px(g.originY)]

\* What layout assigns for each of the sizes a pill can measure.
LayoutTable == [size \in PillSizes |->
                  [style |-> LayoutCircleStyle(size[1], size[2]),
                   gsap  |-> LayoutCircleGsap(size[1], size[2])]]

\* The circles layout() works on: `if (!circle?.parentElement) return`.
LayoutTargets == {i \in Pills : circleRefs[i]}

\* layout(): every attached circle is sized from its pill's rect `rects`, reset
\* to scale 0, its old timeline killed and a new paused timeline stored; a
\* tween still driving the killed timeline no longer moves anything.
Layout(rects) ==
    /\ circleStyle' = [i \in Pills |->
          IF i \in LayoutTargets THEN LayoutTable[rects[i]].style ELSE circleStyle[i]]
    /\ circleGsap' = [i \in Pills |->
          IF i \in LayoutTargets THEN LayoutTable[rects[i]].gsap ELSE circleGsap[i]]
    /\ hoverLabelOpacity' = [i \in Pills |->
          IF i \in LayoutTargets THEN Num(0) ELSE hoverLabelOpacity[i]]
    /\ tlRefs' = [i \in Pills |->
          IF i \in LayoutTargets THEN [exists |-> TRUE, time |-> Num(0)] ELSE tlRefs[i]]
    /\ activeTweenRefs' = [i \in Pills |->
          IF i \in LayoutTargets /\ activeTweenRefs[i].exists
          THEN [activeTweenRefs[i] EXCEPT !.stale = TRUE]
          ELSE activeTweenRefs[i]]

\* The ScrollReveal instances of the page.
SRInstances == {1, 2}
NoCleanup == 0 - 1

\* The mobile menu as the style sheet leaves it, and as
\* gsap.set(menu, { visibility: 'hidden', opacity: 0, scaleY: 1 }) leaves it.
MenuCss    == [visibility |-> "visible", opacity |-> Num(1)]
MenuHidden == [visibility |-> "hidden", opacity |-> Num(0)]

\* The body of the layout effect once gsap is ready: layout(), the resize
\* listener, layout again when the fonts are ready, and the mobile menu hidden.
EffectBody ==
    /\ Layout(pillRect)
    /\ resizeListener' = TRUE
    /\ fontsThen' = IF fontsReady THEN fontsThen ELSE fontsThen + 1
    /\ menuStyle' = MenuHidden
    /\ UNCHANGED <<isMobileMenuOpen, menuTweens, hamburgerLines, toggles>>

NoCall == [called |-> FALSE, distance |-> Num(0), weight |-> Num(0)]
NoOutput == [built |-> FALSE, weight |-> Num(0), string |-> NoString]
NoSpec == [lead |-> 0, items |-> <<>>]
NoRender == [done |-> FALSE, words |-> <<>>, glyphs |-> <<>>, separators |-> 0]

IdleFn ==
    /\ fArgs = [radius |-> 1, falloff |-> "linear"]
    /\ fPrev = NoCall
    /\ fCur = NoCall
    /\ sFrom = NoSpec
    /\ sTo = NoSpec
    /\ sParsed = [done |-> FALSE, list |-> <<>>]
    /\ sOut = NoOutput
    /\ lLabel = VPLabel
    /\ lRender = NoRender

\* The form as it is first rendered, nothing typed and no timer set.
IdleForm ==
    /\ formStatus = "idle"
    /\ formInput = [email |-> FALSE, message |-> FALSE]
    /\ formTimers = {}
    /\ formClock = 0
    /\ formHistory = [prev |-> "none", submissions |-> 0]

\* No ScrollReveal instance in the tree and no scroll trigger on the page.
IdleScroll ==
    /\ srMounted = [i \in SRInstances |-> FALSE]
    /\ srLoaded = [i \in SRInstances |-> FALSE]
    /\ srBlur = [i \in SRInstances |-> TRUE]
    /\ scrollTriggers = {}
    /\ srNextId = 1
    /\ srLast = NoCleanup

NoAxis == [fromValue |-> F64Zero, toValue |-> F64Zero]
NoFrame == [done |-> FALSE, distance |-> F64Zero, falloff |-> "linear",
            falloffValue |-> F64Zero, interpolatedValue |-> F64Zero]
NoRect == [width |-> F64Zero, height |-> F64Zero]
NoLayout == [done |-> FALSE, R |-> F64Zero, under |-> F64Zero, D |-> 0, delta |-> 0,
             originY |-> 0]

\* No frame and no layout() computed yet.
IdleNum ==
    /\ bAxis = NoAxis
    /\ bFrame = NoFrame
    /\ bRect = NoRect
    /\ bLayout = NoLayout

IdlePage == IdleForm /\ IdleScroll /\ IdleNum

IdleVP ==
    /\ vpMounted = FALSE
    /\ vpProps = [label |-> VPLabel, from |-> Wght400, to |-> Wght800,
                  radius |-> 4, falloff |-> "linear", container |-> FALSE]
    /\ parsedSettings = <<>>
    /\ letterRefs = [i \in LetterIndices |-> FALSE]
    /\ letterStyle = [i \in LetterIndices |-> NoString]
    /\ interpolatedSettingsRef = [i \in LetterIndices |-> NoString]
    /\ renderedSettings = [i \in LetterIndices |-> NoString]
    /\ mousePositionRef = <<0, 0>>
    /\ lastPositionRef = NoPosition
    /\ vpListeners = {}
    /\ rafPending = {}
    /\ frameId = 0
    /\ rafNextId = 1
    /\ vpLast = "none"
    /\ pointerHistory = NoPointer

InitPill ==
    /\ IdleVP
    /\ IdleFn
    /\ IdlePage
    /\ gsapReady = FALSE
    /\ pillMounted = TRUE
    /\ pillRect \in [Pills -> PillSizes]
    /\ circleRefs = [i \in Pills |-> TRUE]
    /\ circleStyle = [i \in Pills |-> [width |-> NoString, height |-> NoString, bottom |-> NoString]]
    /\ circleGsap = [i \in Pills |-> [scale |-> Num(1), transformOrigin |-> NoString]]
    /\ tlRefs = [i \in Pills |-> NoTimeline]
    /\ activeTweenRefs = [i \in Pills |-> NoTween]
    /\ liveTweens = [i \in Pills |-> 0]
    /\ hoverLabelOpacity = [i \in Pills |-> Num(1)]
    /\ lastHover = [i \in Pills |-> "none"]
    /\ hovers = 0
    /\ resizeListener = FALSE
    /\ fontsReady = FALSE
    /\ fontsThen = 0
    /\ isMobileMenuOpen = FALSE
    /\ menuStyle = MenuCss
    /\ menuTweens = <<>>
    /\ hamburgerLines = 0
    /\ toggles = 0

\* useGsap sets `loaded`: the effect runs for the first time past its guard.
GsapLoaded ==
    /\ pillMounted /\ ~gsapReady
    /\ gsapReady' = TRUE
    /\ EffectBody
    /\ UNCHANGED <<vpVars, fnVars, pageVars>>
    /\ UNCHANGED <<pillMounted, pillRect, circleRefs, fontsReady, liveTweens,
                   lastHover, hovers>>

\* A dependency changed (`items` is a new array on every parent render): the
\* cleanup removes the resize listener and the effect runs again.
EffectRerun ==
    /\ pillMounted /\ gsapReady
    /\ fontsReady \/ fontsThen < MaxFontsThen
    /\ EffectBody
    /\ UNCHANGED <<vpVars, fnVars, pageVars>>
    /\ UNCHANGED <<gsapReady, pillMounted, pillRect, circleRefs, fontsReady,
                   liveTweens, lastHover, hovers>>

\* The rects of the pills after a change of layout that gives one pill a new size.
Reflowed == {rects \in [Pills -> PillSizes] :
                \E i \in Pills : /\ rects[i] # pillRect[i]
                                 /\ \A j \in Pills \ {i} : rects[j] = pillRect[j]}

\* A resize whose listener does not lay the pills out again.
ResizeNoLayout ==
    \E rects \in Reflowed \cup {pillRect} :
        /\ pillMounted
        /\ pillRect' = rects
        /\ UNCHANGED <<vpVars, fnVars, pageVars>>
        /\ UNCHANGED menuVars
        /\ UNCHANGED <<circleStyle, circleGsap, tlRefs, activeTweenRefs, hoverLabelOpacity>>
        /\ UNCHANGED <<gsapReady, pillMounted, circleRefs, resizeListener,
                       fontsReady, fontsThen, liveTweens, lastHover, hovers>>

\* The window is resized (the pills may or may not change size): the listener,
\* if registered, measures them and lays them out.
Resize ==
    \E rects \in Reflowed \cup {pillRect} :
        /\ pillMounted
        /\ pillRect' = rects
        /\ UNCHANGED <<vpVars, fnVars, pageVars>>
        /\ UNCHANGED menuVars
        /\ IF resizeListener
           THEN Layout(rects)
           ELSE UNCHANGED <<circleStyle, circleGsap, tlRefs, activeTweenRefs,
                            hoverLabelOpacity>>
        /\ UNCHANGED <<gsapReady, pillMounted, circleRefs, resizeListener,
                       fontsReady, fontsThen, liveTweens, lastHover, hovers>>

\* document.fonts.ready resolves (the font metrics may change the pills'
\* widths): every pending continuation calls layout.
FontsReady ==
    \E rects \in Reflowed \cup {pillRect} :
        /\ ~fontsReady
        /\ fontsReady' = TRUE
        /\ UNCHANGED <<vpVars, fnVars, pageVars>>
        /\ UNCHANGED menuVars
        /\ \A i \in Pills : rects[i][2] = pillRect[i][2]
        /\ pillRect' = IF pillMounted THEN rects ELSE pillRect
        /\ IF fontsThen > 0
           THEN Layout(pillRect')
           ELSE UNCHANGED <<circleStyle, circleGsap, tlRefs, activeTweenRefs,
                            hoverLabelOpacity>>
        /\ fontsThen' = 0
        /\ UNCHANGED <<gsapReady, pillMounted, circleRefs, resizeListener,
                       liveTweens, lastHover, hovers>>

\* handleEnter / handleLeave without the kill of the pill's active tween.
HandleHoverNoKill(i, event, to, duration) ==
    /\ pillMounted /\ gsapReady
    /\ tlRefs[i].exists
    /\ hovers < MaxHovers
    /\ UNCHANGED <<vpVars, fnVars, pageVars>>
    /\ UNCHANGED menuVars
    /\ liveTweens' = [liveTweens EXCEPT ![i] = @ + 1]
    /\ activeTweenRefs' = [activeTweenRefs EXCEPT ![i] =
          [exists |-> TRUE, to |-> to, stale |-> FALSE, running |-> TRUE,
           start |-> tlRefs[i].time, duration |-> duration, elapsed |-> 0]]
    /\ lastHover' = [lastHover EXCEPT ![i] = event]
    /\ hovers' = hovers + 1
    /\ UNCHANGED <<gsapReady, pillMounted, pillRect, circleRefs, circleStyle,
                   circleGsap, tlRefs, hoverLabelOpacity, resizeListener,
                   fontsReady, fontsThen>>

\* handleEnter(i) / handleLeave(i): the pill's active tween is killed and a new
\* tween moves the timeline's playhead from where it is to `to` in `duration`.
HandleHover(i, event, to, duration) ==
    /\ pillMounted /\ gsapReady
    /\ tlRefs[i].exists
    /\ hovers < MaxHovers
    /\ UNCHANGED <<vpVars, fnVars, pageVars>>
    /\ UNCHANGED menuVars
    /\ liveTweens' = [liveTweens EXCEPT ![i] =
          (IF activeTweenRefs[i].exists /\ activeTweenRefs[i].running THEN @ - 1 ELSE @) + 1]
    /\ activeTweenRefs' = [activeTweenRefs EXCEPT ![i] =
          [exists |-> TRUE, to |-> to, stale |-> FALSE, running |-> TRUE,
           start |-> tlRefs[i].time, duration |-> duration, elapsed |-> 0]]
    /\ lastHover' = [lastHover EXCEPT ![i] = event]
    /\ hovers' = hovers + 1
    /\ UNCHANGED <<gsapReady, pillMounted, pillRect, circleRefs, circleStyle,
                   circleGsap, tlRefs, hoverLabelOpacity, resizeListener,
                   fontsReady, fontsThen>>

HandleEnter == \E i \in Pills : HandleHover(i, "enter", TimelineEnd, EnterDuration)
HandleLeave == \E i \in Pills : HandleHover(i, "leave", 0, LeaveDuration)

\* The ease 'power3.easeOut' at progress p: 1 - (1 - p)^3.
Power3Out(p) ==
    LET q == Sub(Num(1), p) IN Sub(Num(1), Mul(Mul(q, q), q))

\* The playhead a tweenTo tween gives its timeline after `elapsed` ticks: the
\* eased way from its start to its target, kept to 1/64 s; the target itself
\* when the tween is over.
TweenTime(tw, elapsed) ==
    IF elapsed >= tw.duration THEN Num(tw.to)
    ELSE LET t == Add(tw.start,
                      Mul(Sub(Num(tw.to), tw.start), Power3Out(Fin(elapsed, tw.duration))))
         IN  Fin((t.n * 64) \div t.d, 64)

\* The circle's scale with the timeline's playhead at `time`: 0 -> 1.2, eased.
ScaleAt(time) == Mul(Fin(6, 5), Power3Out(Div(time, Num(TimelineEnd))))

\* The hover label's opacity with the playhead at `time`: 0 -> 1, eased.
OpacityAt(time) == Power3Out(Div(time, Num(TimelineEnd)))

\* gsap's ticker advances a running tween by one tick: the playhead of its
\* timeline moves and the timeline renders the circle and the hover label; a
\* tween on a killed timeline renders nothing.
TweenTick ==
    \E i \in Pills :
        LET tw == activeTweenRefs[i]
            elapsed == tw.elapsed + 1
            next == TweenTime(tw, elapsed)
        IN  /\ tw.exists /\ tw.running
            /\ UNCHANGED <<vpVars, fnVars, pageVars>>
            /\ UNCHANGED menuVars
            /\ IF tw.stale
               THEN /\ activeTweenRefs' = [activeTweenRefs EXCEPT ![i].running = FALSE]
                    /\ liveTweens' = [liveTweens EXCEPT ![i] = @ - 1]
                    /\ UNCHANGED <<tlRefs, circleGsap, hoverLabelOpacity>>
               ELSE /\ tlRefs' = [tlRefs EXCEPT ![i].time = next]
                    /\ circleGsap' = [circleGsap EXCEPT ![i].scale = ScaleAt(next)]
                    /\ hoverLabelOpacity' = [hoverLabelOpacity EXCEPT ![i] = OpacityAt(next)]
                    /\ activeTweenRefs' = [activeTweenRefs EXCEPT
                          ![i].elapsed = elapsed, ![i].running = (elapsed < tw.duration)]
                    /\ liveTweens' = [liveTweens EXCEPT ![i] =
                          IF elapsed < tw.duration THEN @ ELSE @ - 1]
            /\ UNCHANGED <<gsapReady, pillMounted, pillRect, circleRefs, circleStyle,
                           resizeListener, fontsReady, fontsThen, lastHover, hovers>>

\* PillNav is unmounted: React detaches the circle refs and runs the effect's
\* cleanup, which is `() => window.removeEventListener('resize', onResize)`.
UnmountPill ==
    /\ pillMounted
    /\ pillMounted' = FALSE
    /\ circleRefs' = [i \in Pills |-> FALSE]
    /\ UNCHANGED <<vpVars, fnVars, pageVars>>
    /\ UNCHANGED menuVars
    /\ resizeListener' = FALSE
    /\ UNCHANGED <<gsapReady, pillRect, circleStyle, circleGsap, tlRefs,
                   activeTweenRefs, liveTweens, hoverLabelOpacity, lastHover,
                   hovers, fontsReady, fontsThen>>

\* The ticks (tenths of a second) of the menu's open and close tweens.
MaxToggles == 4
OpenDuration == 3
CloseDuration == 2

MenuTweenDuration(tw) == IF tw.kind = "open" THEN OpenDuration ELSE CloseDuration

\* The opacity a menu tween renders after `elapsed` ticks: the open tween goes
\* from 0 to 1, the close tween from the opacity it started at to 0, eased.
MenuTweenOpacity(tw, elapsed) ==
    IF tw.kind = "open"
    THEN Power3Out(Fin(elapsed, OpenDuration))
    ELSE Mul(tw.start, Sub(Num(1), Power3Out(Fin(elapsed, CloseDuration))))

\* gsap renders the menu's tweens in the order they were created (none of
\* them overwrites another): each sets the opacity, and a close tween that
\* ends runs its onComplete, gsap.set(menu, { visibility: 'hidden' }).
RECURSIVE RenderMenu(_, _)
RenderMenu(style, tweens) ==
    IF tweens = <<>> THEN style
    ELSE LET tw == Head(tweens)
             drawn == [style EXCEPT !.opacity = MenuTweenOpacity(tw, tw.elapsed)]
         IN  RenderMenu(IF tw.kind = "close" /\ tw.elapsed >= CloseDuration
                        THEN [drawn EXCEPT !.visibility = "hidden"]
                        ELSE drawn,
                        Tail(tweens))

\* toggleMobileMenu(): nothing without window.gsap (set by the scripts that
\* useGsap loads); the state flips, the hamburger lines are tweened, and the
\* menu is made visible and faded in from opacity 0, or faded out and hidden
\* when the fade-out completes.
ToggleMobileMenu ==
    LET newState == ~isMobileMenuOpen
    IN  /\ pillMounted /\ gsapReady
        /\ toggles < MaxToggles
        /\ isMobileMenuOpen' = newState
        /\ hamburgerLines' = IF newState THEN 45 ELSE 0
        /\ IF newState
           THEN /\ menuStyle' = [visibility |-> "visible", opacity |-> Num(0)]
                /\ menuTweens' = Append(menuTweens,
                      [kind |-> "open", start |-> Num(0), elapsed |-> 0])
           ELSE /\ menuStyle' = menuStyle
                /\ menuTweens' = Append(menuTweens,
                      [kind |-> "close", start |-> menuStyle.opacity, elapsed |-> 0])
        /\ toggles' = toggles + 1
        /\ UNCHANGED <<vpVars, fnVars, pageVars>>
        /\ UNCHANGED <<gsapReady, pillMounted, pillRect, circleRefs, circleStyle,
                       circleGsap, tlRefs, activeTweenRefs, liveTweens,
                       hoverLabelOpacity, lastHover, hovers, resizeListener,
                       fontsReady, fontsThen>>

\* gsap's ticker advances the menu's tweens by one tick and renders them; the
\* tweens that have ended are done.
MenuTick ==
    LET advanced == [k \in 1..Len(menuTweens) |->
                        [menuTweens[k] EXCEPT !.elapsed = @ + 1]]
        Running(tw) == tw.elapsed < MenuTweenDuration(tw)
    IN  /\ menuTweens # <<>>
        /\ menuStyle' = RenderMenu(menuStyle, advanced)
        /\ menuTweens' = SelectSeq(advanced, Running)
        /\ UNCHANGED <<isMobileMenuOpen, hamburgerLines, toggles>>
        /\ UNCHANGED <<vpVars, fnVars, pageVars>>
        /\ UNCHANGED <<gsapReady, pillMounted, pillRect, circleRefs, circleStyle,
                       circleGsap, tlRefs, activeTweenRefs, liveTweens,
                       hoverLabelOpacity, lastHover, hovers, resizeListener,
                       fontsReady, fontsThen>>

NextPill ==
    \/ GsapLoaded
    \/ EffectRerun
    \/ Resize
    \/ FontsReady
    \/ HandleEnter
    \/ HandleLeave
    \/ TweenTick
    \/ UnmountPill

SpecPill == InitPill /\ [][NextPill]_vars

IdlePill ==
    /\ gsapReady = FALSE
    /\ pillMounted = FALSE
    /\ pillRect = [i \in Pills |-> <<0, 0>>]
    /\ circleRefs = [i \in Pills |-> FALSE]
    /\ circleStyle = [i \in Pills |-> [width |-> NoString, height |-> NoString, bottom |-> NoString]]
    /\ circleGsap = [i \in Pills |-> [scale |-> Num(1), transformOrigin |-> NoString]]
    /\ tlRefs = [i \in Pills |-> NoTimeline]
    /\ activeTweenRefs = [i \in Pills |-> NoTween]
    /\ liveTweens = [i \in Pills |-> 0]
    /\ hoverLabelOpacity = [i \in Pills |-> Num(1)]
    /\ lastHover = [i \in Pills |-> "none"]
    /\ hovers = 0
    /\ resizeListener = FALSE
    /\ fontsReady = FALSE
    /\ fontsThen = 0
    /\ isMobileMenuOpen = FALSE
    /\ menuStyle = MenuCss
    /\ menuTweens = <<>>
    /\ hamburgerLines = 0
    /\ toggles = 0

\* PillNav with its mobile menu: the pills keep one size.
InitMenu ==
    /\ InitPill
    /\ pillRect = [i \in Pills |-> <<100, 40>>]

NextMenu ==
    \/ GsapLoaded
    \/ EffectRerun
    \/ ToggleMobileMenu
    \/ MenuTick

SpecMenu == InitMenu /\ [][NextMenu]_vars

Init == InitVP /\ IdlePill /\ IdleFn /\ IdlePage
Next == NextVP
Spec == Init /\ [][Next]_vars

-----------------------------------------------------------------------------
(* calculateFalloff as a pure function: calls with chosen arguments *)

FalloffRadii == {1, 2, 4}
FalloffNames == {"linear", "exponential", "gaussian", "cubic"}

\* The distances of the calls, in halves: 0, 1/2, 1, 3/2, 2, 3, 4, 8, 19, 20, 40.
DistanceHalves == {0, 1, 2, 3, 4, 6, 8, 16, 38, 40, 80}

InitFalloff ==
    /\ IdleVP
    /\ IdlePill
    /\ IdlePage
    /\ fArgs \in [radius : FalloffRadii, falloff : FalloffNames]
    /\ fPrev = NoCall
    /\ fCur = NoCall
    /\ sFrom = NoSpec
    /\ sTo = NoSpec
    /\ sParsed = [done |-> FALSE, list |-> <<>>]
    /\ sOut = NoOutput
    /\ lLabel = VPLabel
    /\ lRender = NoRender

CallFalloff ==
    \E h \in DistanceHalves :
        /\ fPrev' = fCur
        /\ fCur' = [called |-> TRUE,
                    distance |-> Fin(h, 2),
                    weight |-> CalculateFalloff(Fin(h, 2), Num(fArgs.radius), fArgs.falloff)]
        /\ UNCHANGED <<fArgs, sFrom, sTo, sParsed, sOut, lLabel, lRender, vpVars, pillVars,
                   pageVars>>

NextFalloff == CallFalloff

SpecFalloff == InitFalloff /\ [][NextFalloff]_vars

-----------------------------------------------------------------------------
(* parsedSettings and newSettings as pure functions *)

\* An axis specification is written down from its items: a name, the quote
\* around it, the number of spaces before the value, the value as written and
\* what kind of literal that is.
WGHT == <<"w", "g", "h", "t">>
WDTH == <<"w", "d", "t", "h">>

Item(name, quote, gap, literal, kind) ==
    [name |-> name, quote |-> quote, gap |-> gap, literal |-> literal, kind |-> kind]

Spaces(n) == [j \in 1..n |-> " "]

RenderItem(it) == it.quote \o it.name \o it.quote \o Spaces(it.gap) \o it.literal

\* The text of a specification: its items joined with ", " after `lead` spaces.
Render(spec) ==
    Spaces(spec.lead)
    \o Join([j \in 1..Len(spec.items) |-> RenderItem(spec.items[j])], <<",", " ">>)

One(it) == [lead |-> 0, items |-> <<it>>]

SpecWght400     == One(Item(WGHT, <<"'">>, 1, <<"4", "0", "0">>, "integer"))
SpecWght800     == One(Item(WGHT, <<"'">>, 1, <<"8", "0", "0">>, "integer"))
SpecWghtNeg5    == One(Item(WGHT, <<"'">>, 1, <<"-", "5">>, "integer"))
SpecWght400DQ   == One(Item(WGHT, <<"\"">>, 1, <<"4", "0", "0">>, "integer"))
SpecWght400Bare == One(Item(WGHT, <<>>, 1, <<"4", "0", "0">>, "integer"))
SpecWght040     == One(Item(WGHT, <<"'">>, 1, <<"0", "4", "0">>, "padded integer"))
SpecWght400Wide == One(Item(WGHT, <<"'">>, 2, <<"4", "0", "0">>, "integer"))
SpecWght400Lead == [lead |-> 1, items |-> <<Item(WGHT, <<"'">>, 1, <<"4", "0", "0">>, "integer")>>]
SpecWdth875     == One(Item(WDTH, <<"'">>, 1, <<"8", "7", ".", "5">>, "fraction"))
SpecWdth90      == One(Item(WDTH, <<"'">>, 1, <<"9", "0">>, "integer"))
SpecWghtNoValue == One(Item(WGHT, <<"'">>, 0, <<>>, "missing"))
SpecWghtBold    == One(Item(WGHT, <<"'">>, 1, <<"b", "o", "l", "d">>, "not a number"))
SpecTwoAxes     == [lead |-> 0, items |-> <<Item(WGHT, <<"'">>, 1, <<"4", "0", "0">>, "integer"),
                                            Item(WDTH, <<"'">>, 1, <<"9", "0">>, "integer")>>]
SpecTwoAxesRev  == [lead |-> 0, items |-> <<Item(WDTH, <<"'">>, 1, <<"7", "5">>, "integer"),
                                            Item(WGHT, <<"'">>, 1, <<"8", "0", "0">>, "integer")>>]
SpecWghtTwice   == [lead |-> 0, items |-> <<Item(WGHT, <<"'">>, 1, <<"4", "0", "0">>, "integer"),
                                            Item(WDTH, <<"'">>, 1, <<"9", "0">>, "integer"),
                                            Item(WGHT, <<"'">>, 1, <<"8", "0", "0">>, "integer")>>]

FromSpecs == {SpecWght400, SpecWghtNeg5, SpecWght400DQ, SpecWght400Bare, SpecWght040,
              SpecWght400Wide, SpecWght400Lead, SpecWdth875, SpecWghtNoValue,
              SpecWghtBold, SpecTwoAxes, SpecWghtTwice}
ToSpecs   == {SpecWght800, SpecWdth90, SpecTwoAxesRev, SpecWghtNoValue, SpecWghtBold,
              SpecWght400Wide}

\* The falloff values newSettings is built with.
Weights == {Num(0), Fin(1, 4), Fin(1, 2), Num(1)}

InitSettings ==
    /\ IdleVP
    /\ IdlePill
    /\ IdlePage
    /\ fArgs = [radius |-> 1, falloff |-> "linear"]
    /\ fPrev = NoCall
    /\ fCur = NoCall
    /\ sFrom \in FromSpecs
    /\ sTo \in ToSpecs
    /\ sParsed = [done |-> FALSE, list |-> <<>>]
    /\ sOut = NoOutput
    /\ lLabel = VPLabel
    /\ lRender = NoRender

\* The useMemo callback runs on the rendered specifications.
ParseSpecs ==
    /\ ~sParsed.done
    /\ sParsed' = [done |-> TRUE, list |-> ParsedSettings(Render(sFrom), Render(sTo))]
    /\ UNCHANGED <<fArgs, fPrev, fCur, sFrom, sTo, sOut, lLabel, lRender, vpVars, pillVars,
                   pageVars>>

\* The frame callback builds newSettings for a falloff value.
BuildSettings ==
    \E w \in Weights :
        /\ sParsed.done
        /\ sOut' = [built |-> TRUE, weight |-> w, string |-> NewSettings(sParsed.list, w)]
        /\ UNCHANGED <<fArgs, fPrev, fCur, sFrom, sTo, sParsed, lLabel, lRender, vpVars, pillVars,
                   pageVars>>

NextSettings ==
    \/ ParseSpecs
    \/ BuildSettings

SpecSettings == InitSettings /\ [][NextSettings]_vars

-----------------------------------------------------------------------------
(* The render of a label as a pure function *)

MaxLabelLen == 4

\* The characters of the labels: a letter, a space and a tab.
LabelChars == {"a", " ", "\t"}
Labels == UNION {[1..n -> LabelChars] : n \in 1..MaxLabelLen}

InitLabel ==
    /\ IdleVP
    /\ IdlePill
    /\ IdlePage
    /\ fArgs = [radius |-> 1, falloff |-> "linear"]
    /\ fPrev = NoCall
    /\ fCur = NoCall
    /\ sFrom = NoSpec
    /\ sTo = NoSpec
    /\ sParsed = [done |-> FALSE, list |-> <<>>]
    /\ sOut = NoOutput
    /\ lLabel \in Labels
    /\ lRender = NoRender

\* The component renders: label.split(' ') gives the words, every character of
\* a word is a motion.span with the next letterIndex and a letter ref, and
\* every word but the last is followed by a non-breaking space.
RenderLabel ==
    /\ ~lRender.done
    /\ lRender' = [done |-> TRUE,
                   words |-> Split(lLabel, " "),
                   glyphs |-> Letters(lLabel),
                   separators |-> Len(Split(lLabel, " ")) - 1]
    /\ UNCHANGED <<fArgs, fPrev, fCur, sFrom, sTo, sParsed, sOut, lLabel, vpVars, pillVars,
                   pageVars>>

NextLabel == RenderLabel

SpecLabel == InitLabel /\ [][NextLabel]_vars

-----------------------------------------------------------------------------
(* The frame callback's interpolation and layout()'s geometry in binary64 *)

F64One == F64Int(1)

\* The double a decimal n/d denotes: what parseFloat returns for "371.4"
\* (<<3714, 10>>) and what a rect reports for 56.6 pixels.
Decimal(q) == F64FromRational(q[1], q[2])

\* calculateFalloff on doubles.  Math.exp(-0) is 1; for any other argument
\* Math.exp is an approximation the engine chooses, so the gaussian curve is
\* taken at distance 0 only.  norm ** 2 is norm * norm rounded.
CalculateFalloff64(distance, radius, falloff) ==
    LET norm == F64Min(F64Max(F64Sub(F64One, F64Div(distance, radius)), F64Zero), F64One)
    IN  IF falloff = "exponential" THEN F64Mul(norm, norm)
        ELSE IF falloff = "gaussian" THEN F64One
        ELSE norm

\* interpolatedValue with the to value as the base.
InterpolatedValueFromTo(fromValue, toValue, falloffValue) ==
    F64Add(toValue, F64Mul(F64Sub(toValue, fromValue), falloffValue))

\* const interpolatedValue = fromValue + (toValue - fromValue) * falloffValue
InterpolatedValue(fromValue, toValue, falloffValue) ==
    F64Add(fromValue, F64Mul(F64Sub(toValue, fromValue), falloffValue))

\* R, D, delta and originY without the one pixel added to delta.
PillGeometry64NoOffset(w, h) ==
    LET R == F64Div(F64Add(F64Div(F64Mul(w, w), F64Int(4)), F64Mul(h, h)),
                    F64Mul(F64Int(2), h))
        D == F64Ceil(F64Mul(F64Int(2), R)) + 2
        under == F64Sub(F64Mul(R, R), F64Div(F64Mul(w, w), F64Int(4)))
        delta == F64Ceil(F64Sub(R, F64Sqrt(F64Max(F64Zero, under))))
    IN  [done |-> TRUE, R |-> R, under |-> under, D |-> D, delta |-> delta,
         originY |-> D - delta]

\* R, D, delta and originY as layout() computes them for a rect of width w and
\* height h > 0, and `under`, the value of R * R - (w * w) / 4 in it.
PillGeometry64(w, h) ==
    LET R == F64Div(F64Add(F64Div(F64Mul(w, w), F64Int(4)), F64Mul(h, h)),
                    F64Mul(F64Int(2), h))
        D == F64Ceil(F64Mul(F64Int(2), R)) + 2
        under == F64Sub(F64Mul(R, R), F64Div(F64Mul(w, w), F64Int(4)))
        delta == F64Ceil(F64Sub(R, F64Sqrt(F64Max(F64Zero, under)))) + 1
    IN  [done |-> TRUE, R |-> R, under |-> under, D |-> D, delta |-> delta,
         originY |-> D - delta]

\* The from and to values of an axis, as written in the two specifications.
AxisPairs == {<<<<400, 1>>, <<800, 1>>>>, <<<<800, 1>>, <<400, 1>>>>,
              <<<<875, 10>>, <<75, 1>>>>, <<<<1, 10>>, <<3, 10>>>>,
              <<<<3714, 10>>, <<824, 10>>>>, <<<<765, 1>>, <<1668, 10>>>>,
              <<<<100, 1>>, <<9001, 10>>>>, <<<<-5, 1>>, <<5, 1>>>>,
              <<<<400, 1>>, <<400, 1>>>>, <<<<9, 1>>, <<144, 1>>>>}

\* The radius prop (its default) and distances of a letter inside it.
Radius64 == 50
Distances64 == {0, 10, 17, 25, 33, 49}

\* The frames: a distance and a curve.
FrameCases == {c \in Distances64 \X {"linear", "exponential", "gaussian"} :
                  c[2] = "gaussian" => c[1] = 0}

\* Measured width and height of a pill, in pixels.
PillSizes64 == {<<<<100, 1>>, <<40, 1>>>>, <<<<48, 1>>, <<32, 1>>>>,
                <<<<7, 1>>, <<3, 1>>>>, <<<<12, 1>>, <<5, 1>>>>,
                <<<<0, 1>>, <<40, 1>>>>, <<<<566, 10>>, <<283, 10>>>>,
                <<<<124, 1>>, <<55, 1>>>>, <<<<5800, 64>>, <<2144, 64>>>>,
                <<<<80, 1>>, <<40, 1>>>>, <<<<30, 1>>, <<40, 1>>>>,
                <<<<13, 1>>, <<6, 1>>>>, <<<<35, 1>>, <<13, 1>>>>,
                <<<<1200, 1>>, <<1, 2>>>>, <<<<96, 1>>, <<36, 1>>>>}

AxisOf(p) == [fromValue |-> Decimal(p[1]), toValue |-> Decimal(p[2])]
RectOf(size) == [width |-> Decimal(size[1]), height |-> Decimal(size[2])]

\* Either an axis parsed or a pill measured; nothing computed yet.
InitBinary64 ==
    /\ IdleVP
    /\ IdlePill
    /\ IdleFn
    /\ IdleForm
    /\ IdleScroll
    /\ \/ (\E p \in AxisPairs : bAxis = AxisOf(p)) /\ bRect = NoRect
       \/ bAxis = NoAxis /\ \E size \in PillSizes64 : bRect = RectOf(size)
    /\ bFrame = NoFrame
    /\ bLayout = NoLayout

\* A frame with the letter at a distance below the radius: the falloff value
\* and the interpolated value of the axis.
FrameCallback64 ==
    \E c \in FrameCases :
        /\ bAxis # NoAxis
        /\ ~bFrame.done
        /\ LET w == CalculateFalloff64(F64Int(c[1]), F64Int(Radius64), c[2])
           IN  bFrame' = [done |-> TRUE, distance |-> F64Int(c[1]), falloff |-> c[2],
                          falloffValue |-> w,
                          interpolatedValue |->
                              InterpolatedValue(bAxis.fromValue, bAxis.toValue, w)]
        /\ UNCHANGED <<bAxis, bRect, bLayout>>
        /\ UNCHANGED <<vpVars, pillVars, fnVars, formVars, srVars>>

\* layout() on the pill.
Layout64 ==
    /\ bRect # NoRect
    /\ ~bLayout.done
    /\ bLayout' = PillGeometry64(bRect.width, bRect.height)
    /\ UNCHANGED <<bAxis, bFrame, bRect>>
    /\ UNCHANGED <<vpVars, pillVars, fnVars, formVars, srVars>>

NextBinary64 ==
    \/ FrameCallback64
    \/ Layout64

SpecBinary64 == InitBinary64 /\ [][NextBinary64]_vars

-----------------------------------------------------------------------------
(* VariableProximity rendered again with another label or other axis specs *)

\* The labels and axis specifications the instance is rendered with: the
\* first letter of either label is the first letter of the first word, so its
\* element is reused by the next render, and "c" has no second letter.
LabelOne == <<"c">>
PropLabels    == {VPLabel, LabelOne}
PropFromSpecs == {Wght400, WghtWdth}
PropToSpecs   == {Wght800, WdthWght}

InitProps ==
    /\ InitVP
    /\ vpProps.from = Wght400
    /\ vpProps.to = Wght800
    /\ vpProps.falloff = "linear"
    /\ ~vpProps.container
    /\ IdlePill
    /\ IdleFn
    /\ IdlePage

\* The parent renders the instance with another label, from or to prop:
\* useMemo computes parsedSettings again, a letter that is no longer rendered
\* loses its element (its ref becomes null), a letter rendered anew gets an
\* element whose style is the style prop, interpolatedSettingsRef.current[i],
\* a reused element gets the style prop where it differs from the last
\* render's, and the frame-loop effect is cleaned up and run again. The refs
\* letterRefs and interpolatedSettingsRef are the ones of the first render.
RerenderProps ==
    \E label \in PropLabels, from \in PropFromSpecs, to \in PropToSpecs :
        LET count == Len(Letters(label))
        IN  /\ vpMounted
            /\ rafNextId <= MaxFrameId
            /\ <<label, from, to>> # <<vpProps.label, vpProps.from, vpProps.to>>
            /\ vpProps' = [vpProps EXCEPT !.label = label, !.from = from, !.to = to]
            /\ parsedSettings' = ParsedSettings(from, to)
            /\ letterRefs' = [i \in LetterIndices |-> i <= count]
            /\ renderedSettings' = [i \in LetterIndices |->
                  IF i <= count THEN interpolatedSettingsRef[i] ELSE NoString]
            /\ letterStyle' = [i \in LetterIndices |->
                  IF i > count THEN letterStyle[i]
                  ELSE IF ~letterRefs[i] THEN interpolatedSettingsRef[i]
                  ELSE IF interpolatedSettingsRef[i] # renderedSettings[i]
                       THEN interpolatedSettingsRef[i]
                       ELSE letterStyle[i]]
            /\ rafPending' = CancelFrame \cup {rafNextId}
            /\ frameId' = rafNextId
            /\ rafNextId' = rafNextId + 1
            /\ vpLast' = "props"
            /\ UNCHANGED <<pillVars, fnVars, pageVars>>
            /\ UNCHANGED <<vpMounted, interpolatedSettingsRef, mousePositionRef,
                           lastPositionRef, vpListeners, pointerHistory>>

NextProps ==
    \/ MouseMove
    \/ TouchMove
    \/ FrameTick
    \/ Rerender
    \/ RerenderProps
    \/ UnmountVP

SpecProps == InitProps /\ [][NextProps]_vars

-----------------------------------------------------------------------------
(* ScrollReveal: the scroll triggers of its effect and their cleanup *)

\* Triggers are numbered as they are created, up to MaxTriggerId.
MaxTriggerId == 7

\* The creator of a trigger that no ScrollReveal instance made.
OtherCode == 0

InitScroll ==
    /\ IdleVP
    /\ IdlePill
    /\ IdleFn
    /\ IdleForm
    /\ IdleScroll
    /\ IdleNum

\* The triggers the effect of instance i creates: one for the rotation, one
\* for the words' opacity and, with enableBlur, one for the words' blur.
EffectTriggers(i, blur) ==
    LET count == IF blur THEN 3 ELSE 2
    IN  {[id |-> srNextId + k, owner |-> i] : k \in 0..(count - 1)}

\* The effect's cleanup, ScrollTrigger.getAll().forEach(trigger => trigger.kill()):
\* the triggers that are left.
Cleanup(i) == {}

\* An instance is mounted: useGsap's `loaded` is false on the first render and
\* the effect returns at its guard.
MountSR ==
    \E i \in SRInstances, blur \in BOOLEAN :
        /\ ~srMounted[i]
        /\ srMounted' = [srMounted EXCEPT ![i] = TRUE]
        /\ srBlur' = [srBlur EXCEPT ![i] = blur]
        /\ UNCHANGED <<srLoaded, scrollTriggers, srNextId, srLast>>
        /\ UNCHANGED <<vpVars, pillVars, fnVars, formVars, numVars>>

\* useGsap sets the instance's `loaded`: the effect runs past its guard and
\* creates its triggers.
GsapLoadedSR ==
    \E i \in SRInstances :
        /\ srMounted[i] /\ ~srLoaded[i]
        /\ srNextId + 2 <= MaxTriggerId
        /\ srLoaded' = [srLoaded EXCEPT ![i] = TRUE]
        /\ scrollTriggers' = scrollTriggers \cup EffectTriggers(i, srBlur[i])
        /\ srNextId' = srNextId + (IF srBlur[i] THEN 3 ELSE 2)
        /\ UNCHANGED <<srMounted, srBlur, srLast>>
        /\ UNCHANGED <<vpVars, pillVars, fnVars, formVars, numVars>>

\* A dependency of the effect changes (here enableBlur): the cleanup runs and
\* the effect creates its triggers again.
DepsChangeSR ==
    \E i \in SRInstances :
        /\ srMounted[i] /\ srLoaded[i]
        /\ srNextId + 2 <= MaxTriggerId
        /\ srBlur' = [srBlur EXCEPT ![i] = ~@]
        /\ scrollTriggers' = Cleanup(i) \cup EffectTriggers(i, ~srBlur[i])
        /\ srNextId' = srNextId + (IF ~srBlur[i] THEN 3 ELSE 2)
        /\ srLast' = i
        /\ UNCHANGED <<srMounted, srLoaded>>
        /\ UNCHANGED <<vpVars, pillVars, fnVars, formVars, numVars>>

\* An instance is unmounted: the cleanup of its effect runs, if the effect
\* got past its guard.
UnmountSR ==
    \E i \in SRInstances :
        /\ srMounted[i]
        /\ srMounted' = [srMounted EXCEPT ![i] = FALSE]
        /\ srLoaded' = [srLoaded EXCEPT ![i] = FALSE]
        /\ scrollTriggers' = IF srLoaded[i] THEN Cleanup(i) ELSE scrollTriggers
        /\ srLast' = IF srLoaded[i] THEN i ELSE srLast
        /\ UNCHANGED <<srBlur, srNextId>>
        /\ UNCHANGED <<vpVars, pillVars, fnVars, formVars, numVars>>

\* Other code on the page creates a scroll trigger of its own.
OtherTrigger ==
    /\ srNextId <= MaxTriggerId
    /\ scrollTriggers' = scrollTriggers \cup {[id |-> srNextId, owner |-> OtherCode]}
    /\ srNextId' = srNextId + 1
    /\ UNCHANGED <<srMounted, srLoaded, srBlur, srLast>>
    /\ UNCHANGED <<vpVars, pillVars, fnVars, formVars, numVars>>

NextScroll ==
    \/ MountSR
    \/ GsapLoadedSR
    \/ DepsChangeSR
    \/ UnmountSR
    \/ OtherTrigger

SpecScroll == InitScroll /\ [][NextScroll]_vars

-----------------------------------------------------------------------------
(* AegisLanding: the contact form and its simulated submission *)

\* The clock stops at MaxFormClock; the delays of the two timers in its units.
MaxFormClock == 20
SentDelay == 3
IdleDelay == 6

FormFields == {"email", "message"}

InitForm ==
    /\ IdleVP
    /\ IdlePill
    /\ IdleFn
    /\ IdleScroll
    /\ IdleNum
    /\ IdleForm

\* The user fills in or empties one of the two required fields.
EditField ==
    \E f \in FormFields :
        /\ formInput' = [formInput EXCEPT ![f] = ~@]
        /\ UNCHANGED <<formStatus, formTimers, formClock, formHistory>>
        /\ UNCHANGED <<vpVars, pillVars, fnVars, srVars, numVars>>

\* A submission that the submit button lets through whatever the status is.
HandleContactSubmitAnyStatus ==
    /\ formInput.email /\ formInput.message
    /\ formClock + SentDelay + IdleDelay <= MaxFormClock
    /\ formStatus' = "sending"
    /\ formTimers' = formTimers \cup {[sets |-> "sent", due |-> formClock + SentDelay]}
    /\ formHistory' = [prev |-> formStatus, submissions |-> formHistory.submissions + 1]
    /\ UNCHANGED <<formInput, formClock>>
    /\ UNCHANGED <<vpVars, pillVars, fnVars, srVars, numVars>>

\* The form is submitted: the submit button is enabled only while the status
\* is idle and the browser submits only with both required fields filled in;
\* handleContactSubmit sets the status to sending and starts the 1500 ms timer.
HandleContactSubmit ==
    /\ formStatus = "idle"
    /\ formInput.email /\ formInput.message
    /\ formClock + SentDelay + IdleDelay <= MaxFormClock
    /\ formStatus' = "sending"
    /\ formTimers' = formTimers \cup {[sets |-> "sent", due |-> formClock + SentDelay]}
    /\ formHistory' = [prev |-> formStatus, submissions |-> formHistory.submissions + 1]
    /\ UNCHANGED <<formInput, formClock>>
    /\ UNCHANGED <<vpVars, pillVars, fnVars, srVars, numVars>>

\* A timer callback that sets the status and starts no further timer.
TimerFireNoFollowUp ==
    \E t \in formTimers :
        /\ t.due <= formClock
        /\ formStatus' = t.sets
        /\ formTimers' = formTimers \ {t}
        /\ formHistory' = [formHistory EXCEPT !.prev = formStatus]
        /\ UNCHANGED <<formInput, formClock>>
        /\ UNCHANGED <<vpVars, pillVars, fnVars, srVars, numVars>>

\* A timer that is due runs its callback: the first one sets the status to
\* sent and starts the 3000 ms timer, whose callback sets it to idle.
TimerFire ==
    \E t \in formTimers :
        /\ t.due <= formClock
        /\ formStatus' = t.sets
        /\ formTimers' = (formTimers \ {t}) \cup
              (IF t.sets = "sent"
               THEN {[sets |-> "idle", due |-> formClock + IdleDelay]}
               ELSE {})
        /\ formHistory' = [formHistory EXCEPT !.prev = formStatus]
        /\ UNCHANGED <<formInput, formClock>>
        /\ UNCHANGED <<vpVars, pillVars, fnVars, srVars, numVars>>

\* 500 ms pass; a timer that is due runs before the time goes on.
FormTick ==
    /\ formClock < MaxFormClock
    /\ \A t \in formTimers : t.due > formClock
    /\ formClock' = formClock + 1
    /\ UNCHANGED <<formStatus, formInput, formTimers, formHistory>>
    /\ UNCHANGED <<vpVars, pillVars, fnVars, srVars, numVars>>

NextForm ==
    \/ EditField
    \/ HandleContactSubmit
    \/ TimerFire
    \/ FormTick

SpecForm == InitForm /\ [][NextForm]_vars

\* The timers the browser has scheduled fire, and time goes on.
SpecFormFair == SpecForm /\ WF_vars(TimerFire) /\ WF_vars(FormTick)

-----------------------------------------------------------------------------
(* Properties *)

\* Twice the coordinates of letter i's centre, in the coordinates of the pointer samples.
Centre2X(i) ==
    2 * LetterRect(i).left + LetterRect(i).width
    - (IF vpProps.container THEN 2 * ContainerRect.left ELSE 0)
Centre2Y(i) ==
    2 * LetterRect(i).top + LetterRect(i).height
    - (IF vpProps.container THEN 2 * ContainerRect.top ELSE 0)

\* Four times the squared distance of letter i's centre from the sample p.
Dist2x4(i, p) ==
    (2 * p[1] - Centre2X(i)) * (2 * p[1] - Centre2X(i))
    + (2 * p[2] - Centre2Y(i)) * (2 * p[2] - Centre2Y(i))

\* C1: after a frame, every mounted letter whose centre is at a distance >=
\* radius from the frame's pointer sample has the from specification, character
\* for character, as its fontVariationSettings, under every falloff curve.
C1_ResetVerbatim ==
    vpLast = "frame" =>
        \A i \in LetterIndices :
            (letterRefs[i] /\ Dist2x4(i, lastPositionRef) >= 4 * vpProps.radius * vpProps.radius)
                => letterStyle[i] = vpProps.from

\* C1 witness: a frame under the gaussian curve left a letter whose centre is
\* exactly at the radius with a from specification that formatting would change.
C1_Witness ==
    /\ vpLast = "frame"
    /\ vpProps.falloff = "gaussian"
    /\ vpProps.from = Wght400DQ
    /\ \E i \in LetterIndices :
          /\ letterRefs[i]
          /\ Dist2x4(i, lastPositionRef) = 4 * vpProps.radius * vpProps.radius
          /\ letterStyle[i] = Wght400DQ

\* C2: once the instance is unmounted no step changes the style of a letter,
\* whatever pointer events and animation frames follow.
C2_NoMutationAfterUnmount == [][~vpMounted => letterStyle' = letterStyle]_vars

\* C2 witness: the instance was unmounted after frames and re-renders had run
\* and styled a letter, and a pointer event fired afterwards.
C2_Witness ==
    /\ ~vpMounted
    /\ vpLast = "move"
    /\ rafNextId > 3
    /\ \E i \in LetterIndices : letterStyle[i] # NoString

CeilDiv(p, q) == -((-p) \div q)
IntPx(n) == NatToString(n) \o <<"p", "x">>

\* ceil(2R) + 2 with 2R = (w^2 + 4h^2) / 4h, in integers.
ExpectedD(w, h) == CeilDiv(w * w + 4 * h * h, 4 * h) + 2

\* ceil(R - sqrt(R^2 - w^2/4)) + 1, in integers: with a = w^2 + 4h^2 and
\* b = |w^2 - 4h^2|, R = a/8h and R^2 - w^2/4 = (b/8h)^2.
ExpectedDelta(w, h) ==
    CeilDiv((w * w + 4 * h * h) - Abs(w * w - 4 * h * h), 8 * h) + 1

\* C3: a circle that layout sized from a pill of width w and height h > 0 has
\* width and height D, bottom -delta and transform origin 50% (D - delta), with
\* D = ceil(2R) + 2 and delta = ceil(R - sqrt(max(0, R^2 - w^2/4))) + 1; for
\* w = 100, h = 40 these are R = 51.25, 105px, -41px and 64px.
C3_PillGeometry ==
    /\ PillGeometry(100, 40).R = Fin(5125, 100)
    /\ \A i \in Pills :
          LET w == pillRect[i][1]
              h == pillRect[i][2]
              a == w * w + 4 * h * h
              b == Abs(w * w - 4 * h * h)
          IN  (circleStyle[i].width # NoString /\ h > 0) =>
                 /\ b * b = a * a - 16 * w * w * h * h
                 /\ circleStyle[i].width = IntPx(ExpectedD(w, h))
                 /\ circleStyle[i].height = IntPx(ExpectedD(w, h))
                 /\ circleStyle[i].bottom = <<"-">> \o IntPx(ExpectedDelta(w, h))
                 /\ circleGsap[i].transformOrigin =
                       <<"5", "0", "%", " ">> \o IntPx(ExpectedD(w, h) - ExpectedDelta(w, h))
                 /\ (w = 100 /\ h = 40) =>
                       /\ circleStyle[i].width = <<"1", "0", "5", "p", "x">>
                       /\ circleStyle[i].height = <<"1", "0", "5", "p", "x">>
                       /\ circleStyle[i].bottom = <<"-", "4", "1", "p", "x">>
                       /\ circleGsap[i].transformOrigin =
                             <<"5", "0", "%", " ", "6", "4", "p", "x">>

\* C3 witness: layout has sized the circle of a pill measuring 100 by 40.
C3_Witness ==
    \E i \in Pills :
        /\ pillRect[i] = <<100, 40>>
        /\ circleStyle[i].width = <<"1", "0", "5", "p", "x">>
        /\ circleStyle[i].bottom = <<"-", "4", "1", "p", "x">>
        /\ circleGsap[i].transformOrigin = <<"5", "0", "%", " ", "6", "4", "p", "x">>

\* The text of a style value holds Infinity or NaN.
NonFiniteText(str) == \E j \in 1..Len(str) : str[j] \in {"I", "N"}

\* C4: for a pill of height 0 no Infinity or NaN is written to the circle's
\* width, height, bottom or transform origin.
C4_DegenerateSkipped ==
    \A i \in Pills :
        pillRect[i][2] <= 0 =>
            /\ ~NonFiniteText(circleStyle[i].width)
            /\ ~NonFiniteText(circleStyle[i].height)
            /\ ~NonFiniteText(circleStyle[i].bottom)
            /\ ~NonFiniteText(circleGsap[i].transformOrigin)

InUnitRange(call) == Le(Num(0), call.distance) /\ Le(call.distance, Num(fArgs.radius))

C6_GaussianAlwaysPositive ==
    (fArgs.falloff = "gaussian" /\ fCur.called) =>
        /\ fCur.distance = Num(0) => fCur.weight = Num(1)
        /\ Gt(fCur.weight, Num(0))

\* C6 amended: the gaussian curve gives exactly 1 at distance 0 and a strictly
\* positive weight at every distance up to 19 times the radius, the radius
\* itself included.
C6_GaussianPositiveNear ==
    (fArgs.falloff = "gaussian" /\ fCur.called) =>
        /\ fCur.distance = Num(0) => fCur.weight = Num(1)
        /\ Le(fCur.distance, Num(19 * fArgs.radius)) => Gt(fCur.weight, Num(0))

\* C6 witness: the gaussian curve was called at the radius and then at 19 times
\* the radius, with weights strictly between 0 and 1.
C6_Witness ==
    /\ fArgs.falloff = "gaussian"
    /\ fPrev.called /\ fPrev.distance = Num(fArgs.radius)
    /\ fCur.called /\ fCur.distance = Num(19 * fArgs.radius)
    /\ Gt(fPrev.weight, Num(0)) /\ Lt(fPrev.weight, Num(1))
    /\ Gt(fCur.weight, Num(0)) /\ Lt(fCur.weight, Num(1))

\* The specification is one item with a single-quoted name whose value is
\* written as a decimal integer after one space, with no leading whitespace.
SingleQuotedInteger(spec) ==
    /\ spec.lead = 0
    /\ Len(spec.items) = 1
    /\ spec.items[1].quote = <<"'">>
    /\ spec.items[1].gap = 1
    /\ spec.items[1].kind \in {"integer", "padded integer"}

\* As above, and the integer is written without padding zeros.
CanonicalSingleAxis(spec) ==
    /\ SingleQuotedInteger(spec)
    /\ spec.items[1].kind = "integer"

\* Every item of the specification for the named axis has a numeric value after one space.
NumericFor(spec, name) ==
    \A j \in 1..Len(spec.items) :
        spec.items[j].name = name =>
            /\ spec.items[j].gap = 1
            /\ spec.items[j].kind \in {"integer", "padded integer", "fraction"}

\* C7 as stated: for every single-axis from specification with a single-quoted
\* name and an integer value, the settings built at weight 0 are the from
\* specification character for character, and at weight 1 they are the to
\* specification when that is of the same form for the same axis.
C7_RoundTripAnyInteger ==
    (sOut.built /\ SingleQuotedInteger(sFrom) /\ NumericFor(sTo, sFrom.items[1].name)) =>
        /\ sOut.weight = Num(0) => sOut.string = Render(sFrom)
        /\ (sOut.weight = Num(1) /\ SingleQuotedInteger(sTo)
                /\ sTo.items[1].name = sFrom.items[1].name)
              => sOut.string = Render(sTo)

\* C7 amended: the round trip holds when the integer is written canonically
\* (no padding zeros); from "'wght' 400" and to "'wght' 800" weight 0 gives
\* "'wght' 400" and weight 1 gives "'wght' 800".
C7_RoundTripCanonical ==
    /\ (sOut.built /\ CanonicalSingleAxis(sFrom) /\ NumericFor(sTo, sFrom.items[1].name)) =>
          /\ sOut.weight = Num(0) => sOut.string = Render(sFrom)
          /\ (sOut.weight = Num(1) /\ CanonicalSingleAxis(sTo)
                  /\ sTo.items[1].name = sFrom.items[1].name)
                => sOut.string = Render(sTo)
    /\ (sOut.built /\ Render(sFrom) = Wght400 /\ Render(sTo) = Wght800) =>
          /\ sOut.weight = Num(0) => sOut.string = <<"'", "w", "g", "h", "t", "'", " ", "4", "0", "0">>
          /\ sOut.weight = Num(1) => sOut.string = <<"'", "w", "g", "h", "t", "'", " ", "8", "0", "0">>

\* C7 witness: from "'wght' 400" and to "'wght' 800" were parsed and the
\* settings built at weight 1 are "'wght' 800".
C7_Witness ==
    /\ sFrom = SpecWght400
    /\ sTo = SpecWght800
    /\ sOut.built
    /\ sOut.weight = Num(1)
    /\ sOut.string = Wght800

RECURSIVE Distinct(_)
\* The sequence without the repetitions of an earlier element.
Distinct(seq) ==
    IF seq = <<>> THEN <<>>
    ELSE LET init == Distinct(SubSeq(seq, 1, Len(seq) - 1))
             last == seq[Len(seq)]
         IN  IF \E j \in 1..Len(init) : init[j] = last THEN init ELSE Append(init, last)

ItemNames(spec) == [j \in 1..Len(spec.items) |-> spec.items[j].name]
NamedIn(spec, name) == \E j \in 1..Len(spec.items) : spec.items[j].name = name

\* The comma-separated segments of a built settings string.
Segments(str) == LET parts == Split(str, ",") IN [j \in 1..Len(parts) |-> Trim(parts[j])]

\* C8: the parsed axis list is the axes of the from specification in its order;
\* an axis only the to specification names is not in it, and an axis the to
\* specification does not name has toValue = fromValue and so keeps its from
\* value in the settings built at every weight.
C8_AxisList ==
    sParsed.done =>
        /\ [j \in 1..Len(sParsed.list) |-> sParsed.list[j].axis] = Distinct(ItemNames(sFrom))
        /\ \A j \in 1..Len(sParsed.list) : NamedIn(sFrom, sParsed.list[j].axis)
        /\ \A j \in 1..Len(sParsed.list) :
              ~NamedIn(sTo, sParsed.list[j].axis) =>
                  /\ sParsed.list[j].toValue = sParsed.list[j].fromValue
                  /\ sOut.built =>
                        Segments(sOut.string)[j] =
                            <<"'">> \o sParsed.list[j].axis \o <<"'", " ">>
                            \o NumberToString(sParsed.list[j].fromValue)

\* C8 witness: from "'wght' 400, 'wdth' 90" and to "'wdth' 75, 'wght' 800"
\* parse to wght then wdth, and from "'wght' 400, 'wdth' 90" with to
\* "'wght' 800" the settings built at weight 1/2 keep wdth at 90.
C8_Witness ==
    /\ sFrom = SpecTwoAxes
    /\ sTo = SpecWght800
    /\ sParsed.done
    /\ Len(sParsed.list) = 2
    /\ sParsed.list[2] = [axis |-> WDTH, fromValue |-> Num(90), toValue |-> Num(90)]
    /\ sOut.built
    /\ sOut.weight = Fin(1, 2)
    /\ sOut.string = <<"'", "w", "g", "h", "t", "'", " ", "6", "0", "0", ",", " ",
                       "'", "w", "d", "t", "h", "'", " ", "9", "0">>

\* C9: once a component is unmounted nothing of it stays registered: no pointer
\* or resize listener, no fonts-ready continuation, no requested frame, no
\* live timeline and no running tween.
C9_UnmountReleasesAll ==
    /\ ~vpMounted => (vpListeners = {} /\ rafPending = {})
    /\ ~pillMounted =>
          /\ ~resizeListener
          /\ fontsThen = 0
          /\ \A i \in Pills : ~tlRefs[i].exists
          /\ \A i \in Pills : ~(activeTweenRefs[i].exists /\ activeTweenRefs[i].running)

\* The text holds the characters NaN.
HasNaN(str) == \E j \in 1..Len(str) : j + 2 <= Len(str) /\ SubSeq(str, j, j + 2) = <<"N", "a", "N">>

\* C10: no letter ever gets a fontVariationSettings value that contains NaN:
\* a specification with a missing or non-numeric value is rejected instead.
C10_NoNaNStyle == \A i \in LetterIndices : ~HasNaN(letterStyle[i])

\* C11: for every curve name, the unrecognised one included, every distance
\* >= 0 and every radius > 0 the weight calculateFalloff returns is in [0, 1];
\* two calls with the same distance return the same weight, and an
\* unrecognised name gives the linear weight max(0, 1 - distance / radius).
C11_WeightInUnitInterval ==
    fCur.called =>
        /\ Le(Num(0), fCur.weight) /\ Le(fCur.weight, Num(1))
        /\ (fPrev.called /\ fPrev.distance = fCur.distance) => fPrev.weight = fCur.weight
        /\ fArgs.falloff \notin {"exponential", "gaussian"} =>
              fCur.weight = IF Ge(fCur.distance, Num(fArgs.radius)) THEN Num(0)
                            ELSE Fin(fArgs.radius * fCur.distance.d - fCur.distance.n,
                                     fArgs.radius * fCur.distance.d)

\* C11 witness: the unrecognised curve was called twice at the same distance
\* beyond the radius and returned 0 both times.
C11_Witness ==
    /\ fArgs.falloff = "cubic"
    /\ fPrev.called /\ fCur.called
    /\ fPrev.distance = fCur.distance
    /\ Gt(fCur.distance, Num(fArgs.radius))
    /\ fPrev.weight = Num(0)
    /\ fCur.weight = Num(0)

\* C12: for a pill with a hover timeline the last hover event decides the
\* target of the pill's tween: mouseenter tweens the playhead to the end of the
\* timeline in 0.3 s (circle scale 1.2 and hover label opaque once it is over),
\* mouseleave tweens it to 0 in the shorter 0.2 s (circle scale 0); the tween
\* before it is killed first, so at most one hover tween per pill is running.
C12_HoverTarget ==
    /\ LeaveDuration < EnterDuration
    /\ \A i \in Pills :
          LET tw == activeTweenRefs[i]
          IN  /\ liveTweens[i] <= 1
              /\ lastHover[i] # "none" => tw.exists
              /\ lastHover[i] = "enter" => (tw.to = TimelineEnd /\ tw.duration = 3)
              /\ lastHover[i] = "leave" => (tw.to = 0 /\ tw.duration = 2)
              /\ (tw.exists /\ ~tw.stale /\ tw.running) =>
                    (tw.elapsed < tw.duration /\ liveTweens[i] = 1)
              /\ (tw.exists /\ ~tw.stale /\ ~tw.running) =>
                    /\ tw.elapsed = tw.duration
                    /\ liveTweens[i] = 0
                    /\ tlRefs[i].time = Num(tw.to)
                    /\ lastHover[i] = "enter" =>
                          (circleGsap[i].scale = Fin(12, 10) /\ hoverLabelOpacity[i] = Num(1))
                    /\ lastHover[i] = "leave" =>
                          (circleGsap[i].scale = Num(0) /\ hoverLabelOpacity[i] = Num(0))

\* C12 witness: a mouseleave interrupted the pill's running mouseenter tween
\* part of the way, and its own tween has brought the circle back to scale 0.
C12_Witness ==
    \E i \in Pills :
        /\ lastHover[i] = "leave"
        /\ hovers = 2
        /\ Lt(Num(0), activeTweenRefs[i].start)
        /\ Lt(activeTweenRefs[i].start, Num(TimelineEnd))
        /\ ~activeTweenRefs[i].running /\ ~activeTweenRefs[i].stale
        /\ activeTweenRefs[i].elapsed = 2
        /\ tlRefs[i].time = Num(0)
        /\ circleGsap[i].scale = Num(0)

\* The step is one of the triggers of layout on a mounted PillNav whose
\* animation library is ready: the first run of the effect, a window resize,
\* the fonts-ready signal.
LayoutTrigger == pillMounted /\ gsapReady' /\ (GsapLoaded \/ Resize \/ FontsReady)

\* C13: after the first run of the layout effect, after every window resize and
\* after the fonts-ready signal, every pill's circle has the width, height,
\* bottom and transform origin derived from the pill's size as measured then
\* (pills of positive height), and scale 0.
C13_LayoutOnTriggers ==
    [][LayoutTrigger =>
          \A i \in Pills :
              LET w == pillRect'[i][1]
                  h == pillRect'[i][2]
              IN  /\ circleGsap'[i].scale = Num(0)
                  /\ h > 0 =>
                        /\ circleStyle'[i].width = IntPx(ExpectedD(w, h))
                        /\ circleStyle'[i].height = IntPx(ExpectedD(w, h))
                        /\ circleStyle'[i].bottom = <<"-">> \o IntPx(ExpectedDelta(w, h))
                        /\ circleGsap'[i].transformOrigin =
                              <<"5", "0", "%", " ">>
                              \o IntPx(ExpectedD(w, h) - ExpectedDelta(w, h))]_vars

\* C13 witness: a pill was hovered (its circle scaled up) and a later layout, on
\* the pill measuring 48 by 32 after the fonts were ready, put its circle back
\* to scale 0 with the size for 48 by 32.
C13_Witness ==
    \E i \in Pills :
        /\ pillMounted /\ fontsReady
        /\ pillRect[i] = <<48, 32>>
        /\ lastHover[i] = "enter"
        /\ activeTweenRefs[i].elapsed >= 1
        /\ activeTweenRefs[i].stale
        /\ circleGsap[i].scale = Num(0)
        /\ circleStyle[i].width = <<"5", "2", "p", "x">>
        /\ circleStyle[i].bottom = <<"-", "1", "9", "p", "x">>

\* The style of letter i as a function of a pointer sample, the geometry and
\* the props alone.
StyleOf(i, sample) ==
    IF Dist2x4(i, sample) >= 4 * vpProps.radius * vpProps.radius
    THEN vpProps.from
    ELSE NewSettings(ParsedSettings(vpProps.from, vpProps.to),
                     CalculateFalloff(LetterDistance(i, sample), Num(vpProps.radius),
                                      vpProps.falloff))

\* C14: after a frame the style of every mounted letter is the function
\* StyleOf of that frame's pointer sample, the geometry and the props, whatever
\* earlier frames and renders had applied; so a second frame on the same sample
\* applies what the first one did.
C14_FrameIsFunctionOfSample ==
    vpLast = "frame" =>
        \A i \in LetterIndices :
            letterRefs[i] => letterStyle[i] = StyleOf(i, lastPositionRef)

\* C14 witness: a frame had reset a letter, a render then put the letter's
\* persisted interpolated style back on it, and the frame after that, on the
\* pointer sample of the frame before, reset it again.
C14_Witness ==
    /\ vpLast = "frame"
    /\ rafNextId = 6
    /\ \E i \in LetterIndices :
          /\ letterRefs[i]
          /\ renderedSettings[i] # NoString
          /\ interpolatedSettingsRef[i] = renderedSettings[i]
          /\ letterStyle[i] = vpProps.from
          /\ letterStyle[i] # interpolatedSettingsRef[i]

\* The weight of a letter whose centre is at the distance s / 2 from the
\* sample, s a natural number below 2 * radius: norm = 1 - (s / 2) / radius.
NormAt(s2) == Fin(2 * vpProps.radius - s2, 2 * vpProps.radius)

\* 'name' value of the axis p at the weight w.
AxisText(p, w) ==
    <<"'">> \o p.axis \o <<"'", " ">>
    \o NumberToString(Add(p.fromValue, Mul(Sub(p.toValue, p.fromValue), w)))

Normalised(spec) ==
    [lead |-> 0,
     items |-> [j \in 1..Len(spec.items) |->
                  [spec.items[j] EXCEPT !.quote = <<"'">>,
                                        !.gap = IF spec.items[j].kind = "missing" THEN 0 ELSE 1]]]

\* C16: parsing gives the same (name, value) pairs whatever quotes are around
\* the names and however much whitespace is before, after and between name and
\* value: the same as for the specification written in the normal form.
C16_QuoteAndWhitespaceTolerant ==
    sParsed.done =>
        sParsed.list = ParsedSettings(Render(Normalised(sFrom)), Render(Normalised(sTo)))

\* The characters of a label that are not whitespace, in reading order.
RECURSIVE NonWhitespace(_)
NonWhitespace(str) ==
    IF str = <<>> THEN <<>>
    ELSE IF IsWhitespace(Head(str)) THEN NonWhitespace(Tail(str))
    ELSE <<Head(str)>> \o NonWhitespace(Tail(str))

\* C17: the glyphs of a rendered label, the elements with a glyph index and a
\* letter ref that the frame loop styles, are exactly the label's
\* non-whitespace characters in reading order: no space, tab or newline is one.
C17_WhitespaceNeverGlyph ==
    lRender.done =>
        /\ \A k \in 1..Len(lRender.glyphs) : ~IsWhitespace(lRender.glyphs[k])
        /\ lRender.glyphs = NonWhitespace(lLabel)

\* C18: a frame uses the sample of the last pointer event before it, in the
\* container's coordinates when there is a container: (0, 0) when there was no
\* event yet, the sample of the frame before when no event came in between,
\* and only the last one when several came in between.
C18_LastSampleWins ==
    vpLast = "frame" =>
        lastPositionRef =
            IF pointerHistory.client = <<>> THEN <<0, 0>>
            ELSE IF vpProps.container
                 THEN <<pointerHistory.client[1] - ContainerRect.left,
                        pointerHistory.client[2] - ContainerRect.top>>
                 ELSE pointerHistory.client

\* C18 witness: several pointer events came before the first frame, and the
\* frame used the sample of the last one, (7, 7) in the viewport, in the
\* container's coordinates.
C18_Witness ==
    /\ vpLast = "frame"
    /\ rafNextId = 3
    /\ pointerHistory.events = 2
    /\ pointerHistory.client = <<7, 7>>
    /\ vpProps.container
    /\ lastPositionRef = <<6, 6>>

\* C19: a mounted instance has at most one requested animation frame at any
\* moment, and it is the one whose id the running effect holds: a re-run of the
\* frame-loop effect cancels the frame requested before it requests its own.
C19_OnePendingFrame ==
    vpMounted =>
        /\ Cardinality(rafPending) <= 1
        /\ rafPending \subseteq {frameId}

\* C19 witness: after a frame has run and requested the next one, the instance
\* rendered again; the only requested frame is the one of the new effect.
C19_Witness ==
    /\ vpMounted
    /\ vpLast = "render"
    /\ rafNextId >= 4
    /\ lastPositionRef # NoPosition
    /\ rafPending = {rafNextId - 1}

\* C20: after every frame the string persisted for a glyph,
\* interpolatedSettingsRef[index], is the string that frame applied to the
\* glyph's element, inside the radius (the interpolated string) and at or
\* beyond it (the from spec).
C20_PersistedEqualsApplied ==
    vpLast = "frame" =>
        \A i \in LetterIndices :
            letterRefs[i] => interpolatedSettingsRef[i] = letterStyle[i]

\* C21: when the instance is rendered with another label or other axis
\* specs the per-glyph state is rebuilt: no style string persisted for a glyph
\* before the change is kept for, or rendered onto, a glyph of the new render.
C21_GlyphStateRebuilt ==
    vpLast = "props" =>
        \A i \in LetterIndices :
            letterRefs[i] =>
                /\ interpolatedSettingsRef[i] = NoString
                /\ renderedSettings[i] = NoString

\* C22: a frame leaves a letter without an element alone and processes every
\* letter that has one, so a letter is processed again by the first frame
\* after its element is back.
C22_NullLetterSkipped ==
    [][vpLast' = "frame" =>
          \A i \in LetterIndices :
              IF letterRefs[i]
              THEN letterStyle'[i] = StyleOf(i, mousePositionRef)
              ELSE /\ letterStyle'[i] = letterStyle[i]
                   /\ interpolatedSettingsRef'[i] = interpolatedSettingsRef[i]]_vars

\* C22 witness: a frame ran while the second letter had no element, set the
\* interpolated style on the first letter and left the second one's alone.
C22_Witness ==
    /\ vpLast = "frame"
    /\ letterRefs = <<TRUE, FALSE>>
    /\ letterStyle[1] = StyleOf(1, lastPositionRef)
    /\ letterStyle[1] # vpProps.from
    /\ letterStyle[2] # StyleOf(2, lastPositionRef)

\* C24: the form status is always idle, sending or sent and only moves
\* idle -> sending -> sent -> idle, and at most one timer of a submission is
\* pending at any time.
C24_StatusCycle ==
    /\ [](/\ formStatus \in {"idle", "sending", "sent"}
          /\ Cardinality(formTimers) <= 1)
    /\ [][formStatus' # formStatus =>
            <<formStatus, formStatus'>> \in
                {<<"idle", "sending">>, <<"sending", "sent">>, <<"sent", "idle">>}]_vars

\* C24 witness: the form is idle again after its second submission.
C24_Witness ==
    /\ formStatus = "idle"
    /\ formHistory = [prev |-> "sent", submissions |-> 2]
    /\ formTimers = {}

\* C25: a form that is not idle becomes idle again, given that timers fire.
C25_EventuallyIdle == (formStatus # "idle") ~> (formStatus = "idle")

\* C25 witness: the form is idle again 4500 ms after its first submission at
\* time 0, by way of sent.
C25_Witness ==
    /\ formStatus = "idle"
    /\ formHistory = [prev |-> "sent", submissions |-> 1]
    /\ formClock = SentDelay + IdleDelay

\* C26: once gsap has set the menu up and no tween of the menu is running,
\* the menu element is visible exactly when isMobileMenuOpen is true.
C26_MenuVisibleIffOpen ==
    (pillMounted /\ gsapReady /\ menuTweens = <<>>) =>
        ((menuStyle.visibility = "visible") <=> isMobileMenuOpen)

\* C27: whenever the pointer is over a pill (its last hover event is a
\* mouseenter) and no tween of the pill is running, the pill's accent is in
\* its hovered end state: the timeline at its end, the circle scaled to 1.2.
C27_HoveredAccentShown ==
    \A i \in Pills :
        (pillMounted /\ lastHover[i] = "enter" /\ liveTweens[i] = 0) =>
            /\ tlRefs[i].exists
            /\ tlRefs[i].time = Num(TimelineEnd)
            /\ circleGsap[i].scale = Fin(6, 5)

\* C28: the cleanup of a ScrollReveal instance kills only the scroll triggers
\* that instance created: a trigger of another creator that is alive before a
\* step is alive after it.
C28_CleanupKillsOwnOnly ==
    [][\A t \in scrollTriggers :
          t \notin scrollTriggers' => t.owner = srLast']_vars

\* The specification's value for the named axis, the one of its last item
\* with that name, is missing or is not a number.
MalformedFor(spec, name) ==
    \E j \in 1..Len(spec.items) :
        /\ spec.items[j].name = name
        /\ spec.items[j].kind \in {"missing", "not a number"}
        /\ \A k \in (j + 1)..Len(spec.items) : spec.items[k].name # name

\* C23: a specification with a missing or non-numeric value is parsed without
\* validation: the value of that axis is NaN, from or to, and the settings
\* built for a letter, at every falloff value, have NaN for that axis.
C23_NaNPropagates ==
    sParsed.done =>
        \A j \in 1..Len(sParsed.list) :
            LET p == sParsed.list[j]
            IN  /\ MalformedFor(sFrom, p.axis) => IsNaN(p.fromValue)
                /\ MalformedFor(sTo, p.axis) => IsNaN(p.toValue)
                /\ (sOut.built /\ (MalformedFor(sFrom, p.axis) \/ MalformedFor(sTo, p.axis)))
                      => Segments(sOut.string)[j] =
                            <<"'">> \o p.axis \o <<"'", " ", "N", "a", "N">>

\* C23 witness: from "'wght' 400" and to "'wght' bold" were parsed and the
\* settings built at falloff value 1/2 are "'wght' NaN".
C23_Witness ==
    /\ sFrom = SpecWght400
    /\ sTo = SpecWghtBold
    /\ sParsed.done
    /\ sOut.built
    /\ sOut.weight = Fin(1, 2)
    /\ sOut.string = <<"'", "w", "g", "h", "t", "'", " ", "N", "a", "N">>

-----------------------------------------------------------------------------
(* The interpolated value and the pill geometry in binary64 *)

\* min(a, b) <= v <= max(a, b)
F64Within(v, a, b) == F64Le(F64Min(a, b), v) /\ F64Le(v, F64Max(a, b))

\* The unrounded x is a double: rounding it drops no digit.
F64Exactly(x) ==
    LET r == F64Round(x.s, x.m, x.e)
    IN  x.m = <<>> \/ r.e <= x.e \/ BigShl(r.m, r.e - x.e) = x.m

\* toValue - fromValue is computed without rounding.
ExactDifference(axis) == F64Exactly(F64Sum(axis.toValue, F64Neg(axis.fromValue)))

\* C29 as stated: after a frame with the letter inside the radius, the
\* interpolated value of the axis lies between min(fromValue, toValue) and
\* max(fromValue, toValue) inclusive, under all three curves.
C29_WithinFromTo ==
    bFrame.done => F64Within(bFrame.interpolatedValue, bAxis.fromValue, bAxis.toValue)

\* C29: after a frame with the letter inside the radius, the falloff value is
\* in [0, 1] and, when toValue - fromValue is computed without rounding (integer
\* axis values, for instance), the interpolated value lies between
\* min(fromValue, toValue) and max(fromValue, toValue) inclusive.
C29_WithinWhenExact ==
    bFrame.done =>
        /\ F64Within(bFrame.falloffValue, F64Zero, F64One)
        /\ ExactDifference(bAxis) =>
              F64Within(bFrame.interpolatedValue, bAxis.fromValue, bAxis.toValue)

\* C29 witness: a frame at distance 17 of radius 50 interpolated the axis from
\* 0.1 to 0.3, whose difference is exact, on the exponential curve, strictly
\* between the two values.
C29_Witness ==
    /\ bFrame.done
    /\ bAxis = AxisOf(<<<<1, 10>>, <<3, 10>>>>)
    /\ ExactDifference(bAxis)
    /\ bFrame.falloff = "exponential"
    /\ bFrame.distance = F64Int(17)
    /\ F64Lt(bAxis.fromValue, bFrame.interpolatedValue)
    /\ F64Lt(bFrame.interpolatedValue, bAxis.toValue)

\* w >= 2 * h for the measured rect.
WideRect == F64Le(F64Mul(F64Int(2), bRect.height), bRect.width)

\* C30 as stated: after layout() on a pill with w >= 0 and h > 0, R^2 - w^2/4
\* is not negative, delta = ceil(h) + 1 whenever w >= 2h, and 1 <= delta < D,
\* so originY = D - delta is positive.
C30_DeltaIsCeilHPlusOne ==
    bLayout.done =>
        /\ F64Le(F64Zero, bLayout.under)
        /\ WideRect => bLayout.delta = F64Ceil(bRect.height) + 1
        /\ 1 <= bLayout.delta
        /\ bLayout.delta < bLayout.D
        /\ bLayout.originY > 0

\* The measured width and height are whole numbers of pixels.
WholePixels ==
    /\ F64Int(F64Ceil(bRect.width)) = bRect.width
    /\ F64Int(F64Ceil(bRect.height)) = bRect.height

\* C30: after layout() on a pill with w >= 0 and h > 0, 1 <= delta < D and
\* originY = D - delta is positive, and for a whole-pixel size with w >= 2h
\* delta is ceil(h) + 1 or ceil(h) + 2.
C30_DeltaWithinOne ==
    bLayout.done =>
        /\ (WideRect /\ WholePixels) =>
              bLayout.delta \in {F64Ceil(bRect.height) + 1, F64Ceil(bRect.height) + 2}
        /\ 1 <= bLayout.delta
        /\ bLayout.delta < bLayout.D
        /\ bLayout.originY = bLayout.D - bLayout.delta
        /\ bLayout.originY > 0

\* C30 witness: layout() on a pill of 7 by 3 pixels computed D = 10, delta = 5,
\* one more than ceil(h) + 1, and originY = 5.
C30_Witness ==
    /\ bLayout.done
    /\ bRect = RectOf(<<<<7, 1>>, <<3, 1>>>>)
    /\ WideRect
    /\ WholePixels
    /\ bLayout.D = 10
    /\ bLayout.delta = 5
    /\ bLayout.originY = 5

=========================================================================
